---- MODULE Spec2Model ----
(***************************************************************************)
(* BabelNAR.rs: the subprocess channel (IoProcessManager, its writer and   *)
(* reader threads), the command VM runtime built on it (CommandVmRuntime)  *)
(* with the ONA translators, and the output cache its consumers fill.      *)
(*                                                                         *)
(* Threads of control: the caller of the runtime (every caller holds       *)
(* `&mut CommandVmRuntime`, in the CLI through one mutex, so calls never   *)
(* overlap), the writer thread, the reader thread, and the child process.  *)
(* A line of text is a string; a line read from the child keeps its        *)
(* newline, a line given to put_line gets one appended.                    *)
(***************************************************************************)
EXTENDS Integers, Sequences, FiniteSets, TLC

(* ---------------------------- bounds --------------------------------- *)

\* input_cmd calls made by the caller
MaxCalls == 3

\* lines the child prints on its stdout
MaxLines == 2

\* terminate() calls made by the caller
MaxTerminate == 2

\* lines the OS pipe to the child's stdin buffers before write_all blocks
PipeCap == 1

\* handlers added to the output cache's handler list
MaxHandlers == 3

\* outputs put into the output cache directly
MaxPuts == 3

\* NAL inputs (ExpectContains, ExpectCycle) the caller executes
MaxNal == 1

\* largest max_cycles and step_cycles of an ExpectCycle
MaxCycles == 3
MaxStep == 2

\* the finite floats of the truth values, budgets and precisions are the
\* multiples 0 .. MaxFloat of one binary fraction, so that their differences are
\* exact
MaxFloat == 4

(* ------------------------- program constants -------------------------- *)

\* ona/translators.rs: const OPERATIONS_MAX
OPERATIONS_MAX == 10

\* term_equal.rs: const MAX_TRIES_FORMALIZE: usize = 0x100
MAX_TRIES_FORMALIZE == 256

\* ona/translators.rs: OPERATOR_NAME_LIST
OPERATOR_NAME_LIST ==
    {"left", "right", "up", "down", "say", "pick", "drop", "go", "activate", "deactivate"}

(* ------------------------------ values -------------------------------- *)

\* navm Cmd values the caller passes to input_cmd: tag, text argument, number
Cmd(tag, arg, n) == [tag |-> tag, arg |-> arg, n |-> n]

Cmds ==
    { Cmd("NSE", "<A --> B>.", 0),
      Cmd("REG", "op", 0),
      Cmd("REG", "left", 0),
      Cmd("REM", "note", 0),
      Cmd("INF", "memory", 0) }

\* lines the child may print (read_line keeps the newline)
LineDerived == "Derived: <a --> b>. Truth: frequency=1.0, confidence=0.9\n"
LineTestFailed == "Test failed.\n"
LineBadExe == "^left executed with args ((\n"
LineNotUtf8 == "<bytes that are not UTF-8>\n"

ChildLines == {LineDerived, LineTestFailed, LineBadExe, LineNotUtf8}

\* VmStatus
Running == [tag |-> "Running", result |-> "", description |-> ""]
TerminatedOk == [tag |-> "Terminated", result |-> "Ok", description |-> ""]
TerminatedErr(d) == [tag |-> "Terminated", result |-> "Err", description |-> d]

\* navm Output (variant tag and raw content)
Output(type, content) == [type |-> type, content |-> content]
NoOutput == Output("", "")

NoCmd == Cmd("", "", 0)

\* a completed call of the runtime: the method, its command (input_cmd), and
\* what it returned: kind "Ok" for Ok(()), "None" for Ok(None), "Some" for
\* Ok(Some(out)) and Ok(out), "Err" for Err(err)
Ret(op, cmd, kind, err, out) ==
    [op |-> op, cmd |-> cmd, kind |-> kind, err |-> err, out |-> out]

\* OutputExpectation: the expected output type ("" for none: any type); no
\* Narsese and no operation are expected
Expect(output_type) == [output_type |-> output_type]

Expectations == { Expect("OUT"), Expect("ANSWER") }

\* std::result::Result<(), String>, the `result` of NALInput::Terminate: Ok(())
\* for `''terminate`, Err(message) for `''terminate: message`
StdOk == [ok |-> TRUE, e |-> ""]
StdErr(e) == [ok |-> FALSE, e |-> e]

\* the NAL input in execution and the locals of nal_expect_cycle: `cycles` as in
\* the code, `iters` the iterations begun, `n` the NAL inputs executed so far;
\* for Terminate its fields, the enabled_user_input given to put_nal, and in
\* `kill` which terminate() call is the one it made (0: none)
NoNal ==
    [op |-> "", e |-> Expect(""), max |-> 0, step |-> 0, cycles |-> 0, iters |-> 0,
     n |-> 0, if_not_user |-> FALSE, enabled_user_input |-> FALSE, result |-> StdOk,
     kill |-> 0]

\* Option<T>
None == [some |-> FALSE]
Some(v) == [some |-> TRUE, v |-> v]

(* ---------------------------- translators ----------------------------- *)

\* hash_operator_id: the id issued for a new operator, from NEXT_OPERATOR_ID
NextOperatorId(next) == (next + 1) % OPERATIONS_MAX
hash_operator_id(next) == NextOperatorId(next) + 1

\* ona input_translate: Ok(text) or Err(UnsupportedInput); `next` is the
\* value of the static NEXT_OPERATOR_ID before the call
input_translate(cmd, next) ==
    CASE cmd.tag = "NSE" -> [ok |-> TRUE, s |-> cmd.arg]
      [] cmd.tag = "CYC" -> [ok |-> TRUE, s |-> ToString(cmd.n)]
      [] cmd.tag = "VOL" -> [ok |-> TRUE, s |-> "*volume=" \o ToString(cmd.n)]
      [] cmd.tag = "REG" ->
            IF cmd.arg \in OPERATOR_NAME_LIST
            THEN [ok |-> TRUE, s |-> ""]
            ELSE [ok |-> TRUE,
                  s |-> "*setopname " \o ToString(hash_operator_id(next))
                            \o " ^" \o cmd.arg]
      [] cmd.tag = "REM" -> [ok |-> TRUE, s |-> ""]
      [] cmd.tag = "EXI" -> [ok |-> TRUE, s |-> "*quit"]
      [] OTHER -> [ok |-> FALSE, s |-> ""]

\* whether input_translate reaches hash_operator_id
IssuesOperatorId(cmd) == cmd.tag = "REG" /\ cmd.arg \notin OPERATOR_NAME_LIST

\* the input translator of the default pair: the text of the command
default_input_translator(cmd) ==
    [ok |-> TRUE,
     s |-> IF cmd.tag \in {"CYC", "VOL"}
           THEN cmd.tag \o " " \o ToString(cmd.n)
           ELSE cmd.tag \o " " \o cmd.arg]

\* Option::unwrap_or
unwrap_or(option, default) == IF option = None THEN default ELSE option.v

\* ona output_translate on the lines of ChildLines:
\*   contains "Test failed."                    -> TERMINATED
\*   head "derived"                             -> OUT (a Narsese that does
\*                                                 not parse is only logged)
\*   contains "executed with args", arguments
\*   the dialect grammar rejects                -> Err (the `?` on the parse)
\*   anything else with whitespace              -> OTHER
output_translate(line) ==
    CASE line = LineTestFailed ->
            [ok |-> TRUE, out |-> Output("TERMINATED", line)]
      [] line = LineDerived -> [ok |-> TRUE, out |-> Output("OUT", line)]
      [] line = LineBadExe -> [ok |-> FALSE, out |-> NoOutput]
      [] OTHER -> [ok |-> TRUE, out |-> Output("OTHER", line)]

\* BufRead::read_line fails with "stream did not contain valid UTF-8"
IsUtf8(line) == line # LineNotUtf8

(* ------------------------- output cache ------------------------------- *)

\* the handlers (FnMut(Item) -> Option<Item>) given to a FlowHandlerList:
\*   "ws_broadcast"      the one the Websocket server registers: broadcasts the
\*                       output and returns Some(output)
\*   "intercept_answer"  returns None for an ANSWER, Some(output) for the rest
\*   "retype_out"        returns another item than it was given: an OUT comes
\*                       back as an ANSWER of the same content
\*   any other           returns None
HandlerKinds == {"ws_broadcast", "intercept_answer", "retype_out"}

ApplyHandler(h, item) ==
    CASE h = "ws_broadcast" -> [some |-> TRUE, item |-> item]
      [] h = "intercept_answer" -> [some |-> item.type # "ANSWER", item |-> item]
      [] h = "retype_out" ->
            [some |-> TRUE,
             item |-> IF item.type = "OUT" THEN [item EXCEPT !.type = "ANSWER"] ELSE item]
      [] OTHER -> [some |-> FALSE, item |-> item]

\* faulty variant of HandleFrom: every handler is given the item handle() was
\* called with, not what the handler before it returned
RECURSIVE HandleFromUnthreaded(_, _, _)
HandleFromUnthreaded(handlers, i, item) ==
    IF i > Len(handlers)
    THEN [passed |-> TRUE, item |-> item, index |-> 0, invoked |-> i - 1]
    ELSE LET r == ApplyHandler(handlers[i], item)
         IN  IF r.some
             THEN [HandleFromUnthreaded(handlers, i + 1, item) EXCEPT
                      !.item = IF i = Len(handlers) THEN r.item ELSE @]
             ELSE [passed |-> FALSE, item |-> item, index |-> i - 1, invoked |-> i]

\* FlowHandlerList::handle, from handler i on: Passed(item) or Consumed(index);
\* `invoked` counts the handlers that were called
RECURSIVE HandleFrom(_, _, _)
HandleFrom(handlers, i, item) ==
    IF i > Len(handlers)
    THEN [passed |-> TRUE, item |-> item, index |-> 0, invoked |-> i - 1]
    ELSE LET r == ApplyHandler(handlers[i], item)
         IN  IF r.some
             THEN HandleFrom(handlers, i + 1, r.item)
             ELSE [passed |-> FALSE, item |-> item, index |-> i - 1, invoked |-> i]

handle(handlers, item) == HandleFrom(handlers, 1, item)

(* ------------------------ Narsese terms (lexical) ---------------------- *)

\* narsese::lexical::Term, its four variants in the order of the enum (which is
\* the order its derived Ord compares different variants in)
Atom(prefix, name) == [variant |-> "Atom", prefix |-> prefix, name |-> name]
Compound(connecter, terms) ==
    [variant |-> "Compound", connecter |-> connecter, terms |-> terms]
Set(left_bracket, terms, right_bracket) ==
    [variant |-> "Set", left_bracket |-> left_bracket, terms |-> terms,
     right_bracket |-> right_bracket]
Statement(copula, subject, predicate) ==
    [variant |-> "Statement", copula |-> copula, subject |-> subject,
     predicate |-> predicate]

VariantOrder == << "Atom", "Compound", "Set", "Statement" >>

\* the words, variables, placeholder and statements the terms below are made of
Word(name) == Atom("", name)
IVar(name) == Atom("$", name)
DVar(name) == Atom("#", name)
QVar(name) == Atom("?", name)
Placeholder == Atom("_", "")
Inh(subject, predicate) == Statement("-->", subject, predicate)
Sim(subject, predicate) == Statement("<->", subject, predicate)
Impl(subject, predicate) == Statement("==>", subject, predicate)
Conj(terms) == Compound("&&", terms)
Prod(terms) == Compound("*", terms)
ExtImage(terms) == Compound("/", terms)
ExtSet(terms) == Set("{", terms, "}")

\* every string that occurs in a term below, in the order of str::cmp (bytes)
StringOrder ==
    << "", "#", "$", "&&", "*", "-->", "/", "1", "2", "<->", "==>", "?", "A", "B",
       "_", "a", "b", "key", "lock", "open", "x", "y", "{" >>

Ordering == {"Less", "Equal", "Greater"}

\* Ord::cmp on integers
IntCmp(i, j) == IF i < j THEN "Less" ELSE IF i > j THEN "Greater" ELSE "Equal"

IndexIn(q, x) == CHOOSE i \in 1..Len(q) : q[i] = x

\* str::cmp
StrCmp(s1, s2) == IntCmp(IndexIn(StringOrder, s1), IndexIn(StringOrder, s2))

\* Ordering::then
Then(o1, o2) == IF o1 = "Equal" THEN o2 ELSE o1

\* get_identifier
get_identifier(term) ==
    CASE term.variant = "Atom" -> term.prefix
      [] term.variant = "Compound" -> term.connecter
      [] term.variant = "Set" -> term.left_bracket
      [] term.variant = "Statement" -> term.copula

\* is_variable_atom_prefix: independent, dependent, query
is_variable_atom_prefix(prefix) == prefix \in {"$", "#", "?"}

\* VariableNameMap::new(): a HashMap<String, String>, here a function from the
\* keys to their values
EmptyMap == << >>

\* HashMap::insert
MapInsert(map, k, v) ==
    [x \in DOMAIN map \cup {k} |-> IF x = k THEN v ELSE map[x]]

\* find_variables_renaming: the map after the term was visited
RECURSIVE find_variables_renaming(_, _)
RECURSIVE FindVariablesRenamingEach(_, _)
find_variables_renaming(term, map) ==
    CASE term.variant = "Atom" ->
            IF is_variable_atom_prefix(term.prefix)
            THEN LET new_name == IF term.name \in DOMAIN map
                                 THEN map[term.name]
                                 ELSE ToString(Cardinality(DOMAIN map) + 1)
                 IN  MapInsert(map, term.name, new_name)
            ELSE map
      [] term.variant \in {"Compound", "Set"} ->
            FindVariablesRenamingEach(term.terms, map)
      [] term.variant = "Statement" ->
            FindVariablesRenamingEach(<< term.subject, term.predicate >>, map)

\* terms.iter().for_each(|term| find_variables_renaming(term, map))
FindVariablesRenamingEach(terms, map) ==
    IF terms = << >> THEN map
    ELSE FindVariablesRenamingEach(Tail(terms),
                                   find_variables_renaming(Head(terms), map))

\* faulty variant of apply_name_substitute: the kind prefix is overwritten too
RECURSIVE apply_name_substitute_losing_kind(_, _)
apply_name_substitute_losing_kind(term, map) ==
    CASE term.variant = "Atom" ->
            IF term.name \in DOMAIN map
            THEN Atom("$", map[term.name])
            ELSE term
      [] term.variant \in {"Compound", "Set"} ->
            [term EXCEPT !.terms =
                [i \in 1..Len(term.terms) |->
                    apply_name_substitute_losing_kind(term.terms[i], map)]]
      [] term.variant = "Statement" ->
            [term EXCEPT
                !.subject = apply_name_substitute_losing_kind(term.subject, map),
                !.predicate = apply_name_substitute_losing_kind(term.predicate, map)]

\* apply_name_substitute: every atom (the match arm is `Atom { name, .. }`, for
\* any prefix) whose name is a key of the map gets the key's value as its name
RECURSIVE apply_name_substitute(_, _)
apply_name_substitute(term, map) ==
    CASE term.variant = "Atom" ->
            IF term.name \in DOMAIN map
            THEN [term EXCEPT !.name = map[term.name]]
            ELSE term
      [] term.variant \in {"Compound", "Set"} ->
            [term EXCEPT !.terms =
                [i \in 1..Len(term.terms) |-> apply_name_substitute(term.terms[i], map)]]
      [] term.variant = "Statement" ->
            [term EXCEPT !.subject = apply_name_substitute(term.subject, map),
                         !.predicate = apply_name_substitute(term.predicate, map)]

\* rename_variables_in_term_with_map: the term, the map and `modified` after it
rename_variables_in_term_with_map(term, map) ==
    LET found == find_variables_renaming(term, map)
        modified == \E k \in DOMAIN found : k # found[k]
    IN  [term |-> IF modified THEN apply_name_substitute(term, found) ELSE term,
         map |-> found,
         modified |-> modified]

\* rename_variables_in_term: (modified, map) = (!map.is_empty(), map)
rename_variables_in_term(term) ==
    LET r == rename_variables_in_term_with_map(term, EmptyMap)
    IN  [term |-> r.term, map |-> r.map, modified |-> DOMAIN r.map # {}]

\* is_communicative_term: sets, intersections, conjunctions, disjunction,
\* similarity and the equivalences
is_communicative_term(identifier) ==
    identifier \in {"{", "[", "&", "|", "&&", "||", "&|", "<->", "<=>", "<|>"}

\* term_comparator: two variable atoms are Equal whatever their kinds and
\* names, a variable atom is Greater than any other atom; two compounds or two
\* sets compare by connecter, then child by child over the zipped children;
\* terms of different variants compare by the derived Ord, that is by variant
RECURSIVE term_comparator(_, _)
RECURSIVE TermComparatorZipped(_, _)
term_comparator(term1, term2) ==
    CASE term1.variant = "Atom" /\ term2.variant = "Atom" ->
            LET v1 == is_variable_atom_prefix(term1.prefix)
                v2 == is_variable_atom_prefix(term2.prefix)
            IN  CASE v1 /\ v2 -> "Equal"
                  [] ~v1 /\ v2 -> "Less"
                  [] v1 /\ ~v2 -> "Greater"
                  [] OTHER -> Then(StrCmp(term1.prefix, term2.prefix),
                                   StrCmp(term1.name, term2.name))
      [] term1.variant = "Compound" /\ term2.variant = "Compound" ->
            Then(StrCmp(term1.connecter, term2.connecter),
                 TermComparatorZipped(term1.terms, term2.terms))
      [] term1.variant = "Set" /\ term2.variant = "Set" ->
            Then(StrCmp(term1.left_bracket, term2.left_bracket),
                 TermComparatorZipped(term1.terms, term2.terms))
      [] term1.variant = "Statement" /\ term2.variant = "Statement" ->
            Then(StrCmp(term1.copula, term2.copula),
                 TermComparatorZipped(<< term1.subject, term1.predicate >>,
                                      << term2.subject, term2.predicate >>))
      [] OTHER -> IntCmp(IndexIn(VariantOrder, term1.variant),
                         IndexIn(VariantOrder, term2.variant))

\* t1.iter().zip(t2.iter()).map(term_comparator_zipped).fold(Equal, Ordering::then)
TermComparatorZipped(terms1, terms2) ==
    IF terms1 = << >> \/ terms2 = << >> THEN "Equal"
    ELSE Then(term_comparator(Head(terms1), Head(terms2)),
              TermComparatorZipped(Tail(terms1), Tail(terms2)))

\* slice::sort_by(term_comparator), a stable sort; on the short slices of a
\* term it is an insertion sort: each element moves left past the elements it
\* is Less than
RECURSIVE InsertTail(_, _)
InsertTail(sorted, term) ==
    IF sorted = << >> THEN << term >>
    ELSE IF term_comparator(term, sorted[Len(sorted)]) = "Less"
    THEN Append(InsertTail(SubSeq(sorted, 1, Len(sorted) - 1), term),
                sorted[Len(sorted)])
    ELSE Append(sorted, term)

RECURSIVE SortFrom(_, _)
SortFrom(sorted, rest) ==
    IF rest = << >> THEN sorted
    ELSE SortFrom(InsertTail(sorted, Head(rest)), Tail(rest))

sort_by(terms) == SortFrom(<< >>, terms)

\* sort_a_communicative_term: the children of this term only; the term and
\* `modified` after it
sort_a_communicative_term(term) ==
    CASE term.variant \in {"Compound", "Set"} ->
            LET ref_terms == sort_by(term.terms)
            IN  [term |-> [term EXCEPT !.terms = ref_terms],
                 modified |-> ref_terms # term.terms]
      [] term.variant = "Statement" ->
            IF term_comparator(term.subject, term.predicate) = "Greater"
            THEN [term |-> [term EXCEPT !.subject = term.predicate,
                                        !.predicate = term.subject],
                  modified |-> TRUE]
            ELSE [term |-> term, modified |-> FALSE]
      [] OTHER -> [term |-> term, modified |-> FALSE]

\* sort_communicative_terms: the inner terms first (all of them), then, for a
\* commutative term, its own children; the term and `modified` after it
RECURSIVE sort_communicative_terms(_)
sort_communicative_terms(term) ==
    LET inner_sorted ==
            CASE term.variant \in {"Compound", "Set"} ->
                    LET each == [i \in 1..Len(term.terms) |->
                                    sort_communicative_terms(term.terms[i])]
                    IN  [term |-> [term EXCEPT !.terms =
                                      [i \in 1..Len(term.terms) |-> each[i].term]],
                         modified |-> \E i \in 1..Len(term.terms) : each[i].modified]
              [] term.variant = "Statement" ->
                    LET s == sort_communicative_terms(term.subject)
                        p == sort_communicative_terms(term.predicate)
                    IN  [term |-> [term EXCEPT !.subject = s.term,
                                               !.predicate = p.term],
                         modified |-> s.modified \/ p.modified]
              [] OTHER -> [term |-> term, modified |-> FALSE]
    IN  IF is_communicative_term(get_identifier(inner_sorted.term))
        THEN LET own == sort_a_communicative_term(inner_sorted.term)
             IN  [term |-> own.term,
                  modified |-> own.modified \/ inner_sorted.modified]
        ELSE inner_sorted

\* one round of the loop of formalize_term, after its renaming (on a fresh
\* map): the sort, and whether the round modified the term
FormalizeRoundSorted(renamed, sorted) ==
    [term |-> sorted.term, modified |-> sorted.modified \/ renamed.modified]

FormalizeRoundRenamed(renamed) ==
    FormalizeRoundSorted(renamed, sort_communicative_terms(renamed.term))

\* one round of the loop of formalize_term: rename, then sort
FormalizeRound(term) ==
    FormalizeRoundRenamed(rename_variables_in_term_with_map(term, EmptyMap))

\* the loop of formalize_term run for at most n rounds: whether it returned (a
\* round modified nothing), and the term then. `history` holds the term before
\* each round made so far and the term now. A round depends on the term alone
\* (its map is fresh), so a round that gives a term of the history starts the
\* same rounds again, all of them modifying: the loop runs all its n rounds
\* then, and the term after them is read off the history
RECURSIVE FormalizeRounds(_, _)
RECURSIVE FormalizeRoundsAfter(_, _, _)
FormalizeRounds(history, n) ==
    IF Len(history) - 1 = n
    THEN [returned |-> FALSE, term |-> history[Len(history)]]
    ELSE FormalizeRoundsAfter(history, n, FormalizeRound(history[Len(history)]))

\* the loop after the round `round`
FormalizeRoundsAfter(history, n, round) ==
    LET again == { k \in 1..Len(history) : history[k] = round.term }
        first == CHOOSE k \in again : TRUE
        period == Len(history) + 1 - first
    IN  IF ~round.modified THEN [returned |-> TRUE, term |-> round.term]
        ELSE IF again # {}
        THEN [returned |-> FALSE,
              term |-> history[first + ((n - (first - 1)) % period)]]
        ELSE FormalizeRounds(Append(history, round.term), n)

\* what formalize_term gives when its loop ended with r
FormalizeTermEnd(r) == [panic |-> ~r.returned, term |-> r.term]

\* formalize_term: the term it returns, or the panic after MAX_TRIES_FORMALIZE
\* rounds that all modified the term
formalize_term(term) ==
    FormalizeTermEnd(FormalizeRounds(<< term >>, MAX_TRIES_FORMALIZE))

(* ------------------------------ state --------------------------------- *)

VARIABLES
    status,              \* CommandVmRuntime.status
    termination_signal,  \* IoProcessManager.termination_signal
    child_in,            \* outbound channel: lines sent, not yet received by the writer
    child_out,           \* inbound channel: lines sent by the reader, not yet fetched
    thread_write_in,     \* TRUE while the manager holds the writer's JoinHandle
    thread_read_out,     \* TRUE while the manager holds the reader's JoinHandle
    wpc,                 \* writer thread: "recv", "write", "done"
    wline,               \* the line the writer received and is about to write
    rpc,                 \* reader thread: "read", "done"
    alive,               \* the child process runs
    stdin_pipe,          \* lines in the child's stdin pipe the child has not read
    stdout_pipe,         \* lines in the child's stdout pipe the reader has not read
    NEXT_OPERATOR_ID,    \* ona/translators.rs static
    inner,               \* OutputCache.inner
    output_handlers,     \* OutputCache.output_handlers
    handle_result,       \* OutputCache::put: what the last handle() returned
    cpc,                 \* caller: "idle", or where it is inside a blocking call
    ret,                 \* what the caller's last completed call returned
    nCalls,              \* input_cmd calls made
    nTerminate,          \* terminate() calls made
    nal,                 \* the NAL input the caller executes or executed last,
                         \* with the locals of nal_expect_cycle
    tm,                  \* term_equal.rs: the terms the functions are called on (they
                         \* change them in place) and what the calls returned
    ex,                  \* narsese_expectation.rs, OutputExpectation::matches: the
                         \* arguments of a call and what it returned ("?" before
                         \* the call)
    vm,                  \* CommandVm: the translators given to the builder, whether
                         \* launch() was called, and the translators of the
                         \* CommandVmRuntime it returned
    cli,                 \* RuntimeManager: who holds the lock of `runtime` and the
                         \* lock of `output_cache`, where each thread of the CLI
                         \* is, and the configuration
    \* history
    accepted,            \* the input_cmd calls that returned Ok, in call order: the
                         \* command and the text the input translator gave for it
    stdin_written,       \* every line written to the child's stdin, in order
    produced,            \* every line the child printed, in order
    offered,             \* every output given to the handler chain, in order
    killed,              \* a kill() has returned
    drained              \* after a kill() returned, a try_fetch_output returned None

vars ==
    << status, termination_signal, child_in, child_out, thread_write_in,
       thread_read_out, wpc, wline, rpc, alive, stdin_pipe, stdout_pipe,
       NEXT_OPERATOR_ID, inner, output_handlers, handle_result, cpc, ret, nCalls, nTerminate,
       nal, tm, ex, vm, cli, accepted, stdin_written, produced, offered, killed, drained >>

channelVars == << termination_signal, child_in, child_out, thread_write_in, thread_read_out >>
writerVars == << wpc, wline >>
childVars == << alive, stdin_pipe, stdout_pipe, produced >>
cacheVars == << inner, output_handlers, handle_result, offered >>
hostVars == << vm, cli >>
toolVars == << tm, ex, hostVars >>

\* the input and the output translator of a runtime, by name: "ona", or
\* "default" for the pair of IoTranslators::default(); NoRuntime: no runtime
Translators(i, o) == [input_translator |-> i, output_translator |-> o]
NoRuntime == Translators("", "")

\* a CommandVm
CommandVm(i, o, launched, runtime) ==
    [input_translator |-> i, output_translator |-> o, launched |-> launched,
     runtime |-> runtime]

\* the threads of the CLI: the main thread (manage, prelude_nal) and the
\* threads of spawn_read_output, spawn_user_input and the Websocket server
Threads == {"main", "read_output", "user_input", "websocket"}

\* a RuntimeManager: the holders of its two locks ("": free), the position of
\* each thread and the RuntimeConfig
RuntimeManager(pc, config) ==
    [runtime |-> "", output_cache |-> "", pc |-> pc, config |-> config]

\* LaunchConfig: prelude_nal and websocket are given or not, user_input and
\* strict_mode are flags
RuntimeConfig(prelude_nal, user_input, websocket, strict_mode) ==
    [prelude_nal |-> prelude_nal, user_input |-> user_input, websocket |-> websocket,
     strict_mode |-> strict_mode]

\* no manager runs: the runtime is used directly by one caller
NoCli == RuntimeManager([t \in Threads |-> "none"], RuntimeConfig(FALSE, FALSE, FALSE, FALSE))

\* no handle() yet
NoResult == [passed |-> FALSE, item |-> NoOutput, index |-> 0, invoked |-> 0]

\* no call of the functions of term_equal.rs yet, on no term
NoTm ==
    [orig |-> << >>, terms |-> << >>, equal |-> << >>, panic |-> FALSE,
     last |-> [op |-> "", i |-> 0, j |-> 0, before |-> << >>, modified |-> FALSE]]

\* no call of the matching functions yet
NoEx ==
    [op |-> "", of |-> "", expected |-> "", out |-> "", precision_epoch |-> "",
     result |-> "?"]

\* CommandVm::launch and IoProcessManager::new: child spawned, both threads started
Launched ==
    /\ status = Running
    /\ termination_signal = FALSE
    /\ child_in = << >>
    /\ child_out = << >>
    /\ thread_write_in = TRUE
    /\ thread_read_out = TRUE
    /\ wpc = "recv"
    /\ wline = ""
    /\ rpc = "read"
    /\ alive = TRUE
    /\ stdin_pipe = 0
    /\ stdout_pipe = << >>
    /\ NEXT_OPERATOR_ID = 0
    /\ inner = << >>
    /\ output_handlers = << "ws_broadcast" >>
    /\ handle_result = NoResult
    /\ cpc = "idle"
    /\ ret = Ret("launch", NoCmd, "Ok", "", NoOutput)
    /\ nCalls = 0
    /\ nTerminate = 0
    /\ nal = NoNal
    /\ accepted = << >>
    /\ stdin_written = << >>
    /\ produced = << >>
    /\ offered = << >>
    /\ killed = FALSE
    /\ drained = FALSE
    /\ vm = CommandVm(Some("ona"), Some("ona"), TRUE, Translators("ona", "ona"))
    /\ cli = NoCli

Init ==
    /\ Launched
    /\ tm = NoTm
    /\ ex = NoEx

(* -------------------------- output cache ------------------------------ *)

\* faulty variant of CachePut: the output is appended whatever handle() returned
CachePutIgnoringConsumed(output) ==
    LET r == handle(output_handlers, output)
    IN  /\ offered' = Append(offered, output)
        /\ handle_result' = [r EXCEPT !.item = IF r.passed THEN @ ELSE NoOutput]
        /\ inner' = Append(inner, r.item)
        /\ UNCHANGED output_handlers

\* OutputCache::put: offer the output to the handler chain; Passed => put_silent
\* appends it, Consumed => only a message is printed
CachePut(output) ==
    LET r == handle(output_handlers, output)
    IN  /\ offered' = Append(offered, output)
        /\ handle_result' = [r EXCEPT !.item = IF r.passed THEN @ ELSE NoOutput]
        /\ inner' = IF r.passed THEN Append(inner, r.item) ELSE inner
        /\ UNCHANGED output_handlers

\* OutputCache::put as a function of the cache contents
PutResult(cache, output) ==
    LET r == handle(output_handlers, output)
    IN  [inner |-> IF r.passed THEN Append(cache.inner, r.item) ELSE cache.inner,
         offered |-> Append(cache.offered, output),
         handle_result |-> [r EXCEPT !.item = IF r.passed THEN @ ELSE NoOutput]]

\* the outputs a user of the cache puts into it
PutOutputs == { Output("OUT", "o"), Output("ANSWER", "a"), Output("IN", "i") }

\* OutputCache::put, called on the cache by itself
Put(output) ==
    /\ Len(offered) < MaxPuts
    /\ CachePut(output)
    /\ UNCHANGED << status, channelVars, writerVars, rpc, childVars, stdin_written,
                    NEXT_OPERATOR_ID, cpc, ret, nCalls, nTerminate, accepted,
                    killed, drained, nal, toolVars >>

\* FlowHandlerList::add_handler on the cache's output_handlers
add_handler(handler) ==
    /\ Len(output_handlers) < MaxHandlers
    /\ output_handlers' = Append(output_handlers, handler)
    /\ UNCHANGED << status, channelVars, writerVars, rpc, childVars, stdin_written,
                    NEXT_OPERATOR_ID, inner, handle_result, offered, cpc, ret,
                    nCalls, nTerminate, accepted, killed, drained, nal, toolVars >>

(* ------------------------- caller: input_cmd --------------------------- *)

\* faulty variant of put_line: the newline is forgotten
put_line_without_newline(input) == input

\* IoProcessManager::put_line: put(format!("{}\n", input))
put_line(input) == input \o "\n"

\* Sender::send fails once the writer thread, which owns the Receiver, has ended
SendFails == wpc = "done"

\* faulty variant of InputCmd: the early return on an empty translation is
\* missing, so the empty text goes to put_line as well
InputCmdWithoutEmptyCheck(cmd) ==
    /\ cpc = "idle"
    /\ nCalls < MaxCalls
    /\ nCalls' = nCalls + 1
    /\ NEXT_OPERATOR_ID' =
          IF IssuesOperatorId(cmd) THEN NextOperatorId(NEXT_OPERATOR_ID)
          ELSE NEXT_OPERATOR_ID
    /\ LET t == input_translate(cmd, NEXT_OPERATOR_ID)
       IN  IF ~t.ok
           THEN /\ ret' = Ret("input_cmd", cmd, "Err", "UnsupportedInput", NoOutput)
                /\ UNCHANGED << child_in, accepted >>
           ELSE IF SendFails
           THEN /\ ret' = Ret("input_cmd", cmd, "Err", "SendError", NoOutput)
                /\ UNCHANGED << child_in, accepted >>
           ELSE /\ child_in' = Append(child_in, put_line(t.s))
                /\ ret' = Ret("input_cmd", cmd, "Ok", "", NoOutput)
                /\ accepted' = Append(accepted, [cmd |-> cmd, s |-> t.s])
    /\ UNCHANGED << status, termination_signal, child_out, thread_write_in,
                    thread_read_out, writerVars, rpc, childVars, stdin_written,
                    cacheVars, cpc, nTerminate, killed, drained, nal, toolVars >>

\* faulty variant of InputCmd: the outbound channel is a rendezvous channel, so
\* the send of a line waits until the writer thread is there to take it
InputCmdRendezvous(cmd) ==
    /\ cpc = "idle"
    /\ nCalls < MaxCalls
    /\ LET t == input_translate(cmd, NEXT_OPERATOR_ID)
       IN  (t.ok /\ t.s # "" /\ ~SendFails) => (wpc = "recv" /\ child_in = << >>)
    /\ nCalls' = nCalls + 1
    /\ NEXT_OPERATOR_ID' =
          IF IssuesOperatorId(cmd) THEN NextOperatorId(NEXT_OPERATOR_ID)
          ELSE NEXT_OPERATOR_ID
    /\ LET t == input_translate(cmd, NEXT_OPERATOR_ID)
       IN  IF ~t.ok
           THEN /\ ret' = Ret("input_cmd", cmd, "Err", "UnsupportedInput", NoOutput)
                /\ UNCHANGED << child_in, accepted >>
           ELSE IF t.s = ""
           THEN /\ ret' = Ret("input_cmd", cmd, "Ok", "", NoOutput)
                /\ accepted' = Append(accepted, [cmd |-> cmd, s |-> t.s])
                /\ UNCHANGED child_in
           ELSE IF SendFails
           THEN /\ ret' = Ret("input_cmd", cmd, "Err", "SendError", NoOutput)
                /\ UNCHANGED << child_in, accepted >>
           ELSE /\ child_in' = Append(child_in, put_line(t.s))
                /\ ret' = Ret("input_cmd", cmd, "Ok", "", NoOutput)
                /\ accepted' = Append(accepted, [cmd |-> cmd, s |-> t.s])
    /\ UNCHANGED << status, termination_signal, child_out, thread_write_in,
                    thread_read_out, writerVars, rpc, childVars, stdin_written,
                    cacheVars, cpc, nTerminate, killed, drained, nal, toolVars >>

\* (self.input_translator)(cmd)
InputTranslated(cmd) ==
    IF vm.runtime.input_translator = "default"
    THEN default_input_translator(cmd)
    ELSE input_translate(cmd, NEXT_OPERATOR_ID)

\* CommandVmRuntime::input_cmd
InputCmd(cmd) ==
    /\ cpc = "idle"
    /\ nCalls < MaxCalls
    /\ nCalls' = nCalls + 1
    /\ NEXT_OPERATOR_ID' =
          IF vm.runtime.input_translator = "ona" /\ IssuesOperatorId(cmd)
          THEN NextOperatorId(NEXT_OPERATOR_ID)
          ELSE NEXT_OPERATOR_ID
    /\ LET t == InputTranslated(cmd)
       IN  IF ~t.ok
           THEN \* `?` on the translation: Err(UnsupportedInput)
                /\ ret' = Ret("input_cmd", cmd, "Err", "UnsupportedInput", NoOutput)
                /\ UNCHANGED << child_in, accepted >>
           ELSE IF t.s = ""
           THEN \* empty translation: return Ok(()) without writing
                /\ ret' = Ret("input_cmd", cmd, "Ok", "", NoOutput)
                /\ accepted' = Append(accepted, [cmd |-> cmd, s |-> t.s])
                /\ UNCHANGED child_in
           ELSE IF SendFails
           THEN \* Sender::send: Err(SendError)
                /\ ret' = Ret("input_cmd", cmd, "Err", "SendError", NoOutput)
                /\ UNCHANGED << child_in, accepted >>
           ELSE /\ child_in' = Append(child_in, put_line(t.s))
                /\ ret' = Ret("input_cmd", cmd, "Ok", "", NoOutput)
                /\ accepted' = Append(accepted, [cmd |-> cmd, s |-> t.s])
    /\ UNCHANGED << status, termination_signal, child_out, thread_write_in,
                    thread_read_out, writerVars, rpc, childVars, stdin_written,
                    cacheVars, cpc, nTerminate, killed, drained, nal, toolVars >>

(* ----------------------- caller: fetching output ----------------------- *)

\* faulty variant of StatusAfterOutput: any other output revives the runtime
StatusResetByOutput(output) ==
    IF output.type = "TERMINATED" THEN TerminatedErr(output.content) ELSE Running

\* try_fetch_output: an output of the TERMINATED variant sets the status to
\* Terminated(Err(description)); any other output leaves it
StatusAfterOutput(output) ==
    IF output.type = "TERMINATED" THEN TerminatedErr(output.content) ELSE status

\* CommandVmRuntime::try_fetch_output, and what every caller does with an
\* Ok(Some(output)): OutputCache::put (runtime_manage.rs spawn_read_output,
\* vm_interact nal_expect_contains)
TryFetchOutput ==
    /\ cpc = "idle"
    /\ IF child_out = << >>
       THEN \* try_recv().ok() is None: the channel is empty or disconnected
            /\ ret' = Ret("try_fetch_output", NoCmd, "None", "", NoOutput)
            /\ drained' = (drained \/ killed)
            /\ UNCHANGED << child_out, status, cacheVars >>
       ELSE LET t == output_translate(Head(child_out))
            IN  /\ child_out' = Tail(child_out)
                /\ UNCHANGED drained
                /\ IF ~t.ok
                   THEN \* `?` on the translation: the line is gone, Err returned
                        /\ ret' = Ret("try_fetch_output", NoCmd, "Err", "ParseError", NoOutput)
                        /\ UNCHANGED << status, cacheVars >>
                   ELSE /\ status' = StatusAfterOutput(t.out)
                        /\ ret' = Ret("try_fetch_output", NoCmd, "Some", "", t.out)
                        /\ CachePut(t.out)
    /\ UNCHANGED << termination_signal, child_in, thread_write_in, thread_read_out,
                    writerVars, rpc, childVars, stdin_written, NEXT_OPERATOR_ID,
                    cpc, nCalls, nTerminate, accepted, killed, nal, toolVars >>

\* the caller enters the blocking CommandVmRuntime::fetch_output
FetchOutputCall ==
    /\ cpc = "idle"
    /\ cpc' = "fetch"
    /\ UNCHANGED << status, channelVars, writerVars, rpc, childVars, stdin_written,
                    NEXT_OPERATOR_ID, cacheVars, ret, nCalls, nTerminate, accepted,
                    killed, drained, nal, toolVars >>

\* Receiver::recv returns: a queued line, or RecvError once the channel is
\* empty and its Sender (owned by the reader thread) is gone.  An Ok(output)
\* goes to OutputCache::put (vm_interact nal_await).
FetchOutputReturn ==
    /\ cpc = "fetch"
    /\ child_out # << >> \/ rpc = "done"
    /\ cpc' = "idle"
    /\ IF child_out = << >>
       THEN /\ ret' = Ret("fetch_output", NoCmd, "Err", "RecvError", NoOutput)
            /\ UNCHANGED << child_out, cacheVars >>
       ELSE LET t == output_translate(Head(child_out))
            IN  /\ child_out' = Tail(child_out)
                /\ IF ~t.ok
                   THEN /\ ret' = Ret("fetch_output", NoCmd, "Err", "ParseError", NoOutput)
                        /\ UNCHANGED cacheVars
                   ELSE /\ ret' = Ret("fetch_output", NoCmd, "Some", "", t.out)
                        /\ CachePut(t.out)
    /\ UNCHANGED << status, termination_signal, child_in, thread_write_in,
                    thread_read_out, writerVars, rpc, childVars, stdin_written,
                    NEXT_OPERATOR_ID, nCalls, nTerminate, accepted, killed, drained,
                    nal, toolVars >>

(* ------------------------- caller: NAL inputs -------------------------- *)

\* OutputExpectation::matches, with no Narsese and no operation expected
matches(e, output) == e.output_type = "" \/ e.output_type = output.type

\* impl Display for OutputExpectation
ExpectationText(e) ==
    "OutputExpectation { " \o (IF e.output_type = "" THEN "*" ELSE e.output_type)
        \o " * * }"

\* OutputExpectationError::ExpectedNotExists(expectation)
ExpectedNotExists(e) == "ExpectedNotExists(" \o ExpectationText(e) \o ")"

\* `while let Some(output) = vm.try_fetch_output()? { output_cache.put(output)? }`
\* on the queue q: every line is translated (a TERMINATED output sets the
\* status) and put; the loop ends on None (err "") or, by the `?`, on the first
\* line whose translation fails, which is taken from the queue all the same
RECURSIVE DrainAll(_, _, _)
DrainAll(q, st, cache) ==
    IF q = << >>
    THEN [err |-> "", child_out |-> q, status |-> st, cache |-> cache]
    ELSE LET t == output_translate(Head(q))
         IN  IF ~t.ok
             THEN [err |-> "ParseError", child_out |-> Tail(q), status |-> st,
                   cache |-> cache]
             ELSE DrainAll(Tail(q),
                           IF t.out.type = "TERMINATED"
                           THEN TerminatedErr(t.out.content) ELSE st,
                           PutResult(cache, t.out))

\* output_cache.for_each(..matches..): some cached output matches
Found(e, cached) == \E i \in 1..Len(cached) : matches(e, cached[i])

Cache == [inner |-> inner, offered |-> offered, handle_result |-> handle_result]

\* nal_expect_contains
NalExpectContains(e) ==
    /\ cpc = "idle"
    /\ nal.n < MaxNal
    /\ nal' = [NoNal EXCEPT !.op = "ExpectContains", !.e = e, !.n = nal.n + 1]
    /\ LET d == DrainAll(child_out, status, Cache)
       IN  /\ child_out' = d.child_out
           /\ status' = d.status
           /\ inner' = d.cache.inner
           /\ offered' = d.cache.offered
           /\ handle_result' = d.cache.handle_result
           /\ drained' = (drained \/ (killed /\ d.err = ""))
           /\ ret' = IF d.err # ""
                     THEN Ret("nal_expect_contains", NoCmd, "Err", d.err, NoOutput)
                     ELSE IF Found(e, d.cache.inner)
                     THEN Ret("nal_expect_contains", NoCmd, "Ok", "", NoOutput)
                     ELSE Ret("nal_expect_contains", NoCmd, "Err",
                              ExpectedNotExists(e), NoOutput)
    /\ UNCHANGED << termination_signal, child_in, thread_write_in, thread_read_out,
                    writerVars, rpc, childVars, stdin_written, NEXT_OPERATOR_ID,
                    output_handlers, cpc, nCalls, nTerminate, accepted, killed,
                    toolVars >>

\* faulty variant of CycleLoop: the loop condition is `cycles <= max_cycles`
CycleLoopOneMore(n) ==
    LET cmd == Cmd("CYC", "", n.step)
        t == input_translate(cmd, NEXT_OPERATOR_ID)
    IN  IF n.cycles > n.max
        THEN /\ ret' = Ret("nal_expect_cycle", NoCmd, "Err", ExpectedNotExists(n.e),
                           NoOutput)
             /\ cpc' = "idle"
             /\ nal' = n
             /\ UNCHANGED << child_in, accepted >>
        ELSE IF SendFails
        THEN /\ ret' = Ret("nal_expect_cycle", NoCmd, "Err", "SendError", NoOutput)
             /\ cpc' = "idle"
             /\ nal' = n
             /\ UNCHANGED << child_in, accepted >>
        ELSE /\ child_in' = Append(child_in, put_line(t.s))
             /\ accepted' = Append(accepted, [cmd |-> cmd, s |-> t.s])
             /\ nal' = [n EXCEPT !.cycles = @ + n.step, !.iters = @ + 1]
             /\ cpc' = "cycle_sleep"
             /\ UNCHANGED ret

\* nal_expect_cycle, from the loop condition `cycles < max_cycles` to the sleep,
\* n being the locals: past the maximum => Err(ExpectedNotExists); else
\* vm.input_cmd(Cmd::CYC(step_cycles))?, cycles += step_cycles, and the sleep
\* (without a step_duration there is no sleep; the other threads run on all
\* the same)
CycleLoop(n) ==
    LET cmd == Cmd("CYC", "", n.step)
        t == input_translate(cmd, NEXT_OPERATOR_ID)
    IN  IF n.cycles >= n.max
        THEN /\ ret' = Ret("nal_expect_cycle", NoCmd, "Err", ExpectedNotExists(n.e),
                           NoOutput)
             /\ cpc' = "idle"
             /\ nal' = n
             /\ UNCHANGED << child_in, accepted >>
        ELSE IF SendFails
        THEN /\ ret' = Ret("nal_expect_cycle", NoCmd, "Err", "SendError", NoOutput)
             /\ cpc' = "idle"
             /\ nal' = n
             /\ UNCHANGED << child_in, accepted >>
        ELSE /\ child_in' = Append(child_in, put_line(t.s))
             /\ accepted' = Append(accepted, [cmd |-> cmd, s |-> t.s])
             /\ nal' = [n EXCEPT !.cycles = @ + n.step, !.iters = @ + 1]
             /\ cpc' = "cycle_sleep"
             /\ UNCHANGED ret

\* nal_expect_cycle is called
NalExpectCycleCall(max_cycles, step_cycles, e) ==
    /\ cpc = "idle"
    /\ nal.n < MaxNal
    /\ CycleLoop([NoNal EXCEPT !.op = "ExpectCycle", !.e = e, !.max = max_cycles,
                                !.step = step_cycles, !.n = nal.n + 1])
    /\ UNCHANGED << status, termination_signal, child_out, thread_write_in,
                    thread_read_out, writerVars, rpc, childVars, stdin_written,
                    NEXT_OPERATOR_ID, cacheVars, nCalls, nTerminate, killed, drained,
                    toolVars >>

\* faulty variant of ExpectCycleInfo: the step is printed, not the count
ExpectCycleInfoWithStep(n) ==
    Output("INFO", "expect-cycle(" \o ToString(n.step) \o "): " \o ExpectationText(n.e))

\* nal_expect_cycle: Output::INFO { message: format!("expect-cycle({cycles}): {expectation}") }
ExpectCycleInfo(n) ==
    Output("INFO", "expect-cycle(" \o ToString(n.cycles) \o "): " \o ExpectationText(n.e))

\* nal_expect_cycle after the sleep: pull every output into the cache, look for
\* a match; on a match put the INFO output and return Ok, else loop.  With a
\* step of at least 1 there are at most max_cycles iterations; the model
\* follows a loop for one iteration more than that, and no further.
NalExpectCycleStep ==
    /\ cpc = "cycle_sleep"
    /\ nal.iters <= MaxCycles
    /\ LET d == DrainAll(child_out, status, Cache)
           c == IF d.err = "" /\ Found(nal.e, d.cache.inner)
                THEN PutResult(d.cache, ExpectCycleInfo(nal))
                ELSE d.cache
       IN  /\ child_out' = d.child_out
           /\ status' = d.status
           /\ inner' = c.inner
           /\ offered' = c.offered
           /\ handle_result' = c.handle_result
           /\ drained' = (drained \/ (killed /\ d.err = ""))
           /\ IF d.err # ""
              THEN /\ ret' = Ret("nal_expect_cycle", NoCmd, "Err", d.err, NoOutput)
                   /\ cpc' = "idle"
                   /\ UNCHANGED << nal, child_in, accepted >>
              ELSE IF Found(nal.e, d.cache.inner)
              THEN /\ ret' = Ret("nal_expect_cycle", NoCmd, "Ok", "", NoOutput)
                   /\ cpc' = "idle"
                   /\ UNCHANGED << nal, child_in, accepted >>
              ELSE CycleLoop(nal)
    /\ UNCHANGED << termination_signal, thread_write_in, thread_read_out, writerVars,
                    rpc, childVars, stdin_written, NEXT_OPERATOR_ID, output_handlers,
                    nCalls, nTerminate, killed, toolVars >>

\* nal_await is called: the caller enters the loop
NalAwaitCall(e) ==
    /\ cpc = "idle"
    /\ nal.n < MaxNal
    /\ nal' = [NoNal EXCEPT !.op = "Await", !.e = e, !.n = nal.n + 1]
    /\ cpc' = "await"
    /\ UNCHANGED << status, channelVars, writerVars, rpc, childVars, stdin_written,
                    NEXT_OPERATOR_ID, cacheVars, ret, nCalls, nTerminate, accepted,
                    killed, drained, toolVars >>

\* faulty variant of NalAwaitFetch: only a matching output is put into the cache
NalAwaitFetchDroppingUnmatched ==
    /\ cpc = "await"
    /\ child_out # << >> \/ rpc = "done"
    /\ IF child_out = << >>
       THEN UNCHANGED << child_out, cacheVars, cpc, ret >>
       ELSE LET t == output_translate(Head(child_out))
            IN  /\ child_out' = Tail(child_out)
                /\ IF ~t.ok
                   THEN UNCHANGED << cacheVars, cpc, ret >>
                   ELSE IF matches(nal.e, t.out)
                   THEN /\ CachePut(t.out)
                        /\ cpc' = "idle"
                        /\ ret' = Ret("nal_await", NoCmd, "Ok", "", NoOutput)
                   ELSE UNCHANGED << cacheVars, cpc, ret >>
    /\ UNCHANGED << status, termination_signal, child_in, thread_write_in,
                    thread_read_out, writerVars, rpc, childVars, stdin_written,
                    NEXT_OPERATOR_ID, nCalls, nTerminate, accepted, killed, drained,
                    nal, toolVars >>

\* one round of the loop of nal_await: the blocking vm.fetch_output() returns
\* (a queued line, or RecvError once the channel is empty and the reader thread
\* is gone); Err(e) => a message is printed and the loop goes on; Ok(output) =>
\* the output is put into the cache, and the function returns Ok if it matches
NalAwaitFetch ==
    /\ cpc = "await"
    /\ child_out # << >> \/ rpc = "done"
    /\ IF child_out = << >>
       THEN UNCHANGED << child_out, cacheVars, cpc, ret >>
       ELSE LET t == output_translate(Head(child_out))
            IN  /\ child_out' = Tail(child_out)
                /\ IF ~t.ok
                   THEN UNCHANGED << cacheVars, cpc, ret >>
                   ELSE /\ CachePut(t.out)
                        /\ IF matches(nal.e, t.out)
                           THEN /\ cpc' = "idle"
                                /\ ret' = Ret("nal_await", NoCmd, "Ok", "", NoOutput)
                           ELSE UNCHANGED << cpc, ret >>
    /\ UNCHANGED << status, termination_signal, child_in, thread_write_in,
                    thread_read_out, writerVars, rpc, childVars, stdin_written,
                    NEXT_OPERATOR_ID, nCalls, nTerminate, accepted, killed, drained,
                    nal, toolVars >>

(* ------------------------- caller: terminate --------------------------- *)

\* CommandVmRuntime::terminate calls IoProcessManager::kill, which can wait
\* (on the join); its steps are the caller positions "kill_put", "kill_join"
\* and "kill_proc".

\* what the call that ends with kill() returns: terminate() returns Ok(()), and
\* nal_terminate, when the terminate() call is the one it made, returns
\* result.map_err(..)
TerminateReturn ==
    IF nal.op = "Terminate" /\ nal.kill = nTerminate
    THEN Ret("nal_terminate", NoCmd, IF nal.result.ok THEN "Ok" ELSE "Err",
             nal.result.e, NoOutput)
    ELSE Ret("terminate", NoCmd, "Ok", "", NoOutput)

\* faulty variant of NalTerminate: if-no-user is not looked at
NalTerminateAlways(if_not_user, enabled_user_input, result) ==
    /\ cpc = "idle"
    /\ nal.n < MaxNal
    /\ nTerminate < MaxTerminate
    /\ nal' = [NoNal EXCEPT !.op = "Terminate", !.n = nal.n + 1,
                            !.if_not_user = if_not_user,
                            !.enabled_user_input = enabled_user_input,
                            !.result = result, !.kill = nTerminate + 1]
    /\ nTerminate' = nTerminate + 1
    /\ termination_signal' = TRUE
    /\ cpc' = "kill_put"
    /\ UNCHANGED << status, child_in, child_out, thread_write_in, thread_read_out,
                    writerVars, rpc, childVars, stdin_written, NEXT_OPERATOR_ID,
                    cacheVars, ret, nCalls, accepted, killed, drained, toolVars >>

\* nal_terminate: if_not_user && enabled_user_input => return Ok(()); else
\* vm.terminate(), entered here (kill() sets the termination signal) and
\* carried on by the steps of kill() below
NalTerminate(if_not_user, enabled_user_input, result) ==
    /\ cpc = "idle"
    /\ nal.n < MaxNal
    /\ nTerminate < MaxTerminate
    /\ IF if_not_user /\ enabled_user_input
       THEN /\ nal' = [NoNal EXCEPT !.op = "Terminate", !.n = nal.n + 1,
                                    !.if_not_user = if_not_user,
                                    !.enabled_user_input = enabled_user_input,
                                    !.result = result]
            /\ ret' = Ret("nal_terminate", NoCmd, "Ok", "", NoOutput)
            /\ UNCHANGED << nTerminate, termination_signal, cpc >>
       ELSE /\ nal' = [NoNal EXCEPT !.op = "Terminate", !.n = nal.n + 1,
                                    !.if_not_user = if_not_user,
                                    !.enabled_user_input = enabled_user_input,
                                    !.result = result, !.kill = nTerminate + 1]
            /\ nTerminate' = nTerminate + 1
            /\ termination_signal' = TRUE
            /\ cpc' = "kill_put"
            /\ UNCHANGED ret
    /\ UNCHANGED << status, child_in, child_out, thread_write_in, thread_read_out,
                    writerVars, rpc, childVars, stdin_written, NEXT_OPERATOR_ID,
                    cacheVars, nCalls, accepted, killed, drained, toolVars >>

\* kill(): lock the termination signal, set it, release the lock
KillSetSignal ==
    /\ cpc = "idle"
    /\ nTerminate < MaxTerminate
    /\ nTerminate' = nTerminate + 1
    /\ termination_signal' = TRUE
    /\ cpc' = "kill_put"
    /\ UNCHANGED << status, child_in, child_out, thread_write_in, thread_read_out,
                    writerVars, rpc, childVars, stdin_written, NEXT_OPERATOR_ID,
                    cacheVars, ret, nCalls, accepted, killed, drained, nal, toolVars >>

\* faulty variant of KillPutSentinel: no sentinel is sent
KillWithoutSentinel ==
    /\ cpc = "kill_put"
    /\ cpc' = "kill_join"
    /\ UNCHANGED << status, channelVars, writerVars, rpc, childVars, stdin_written,
                    NEXT_OPERATOR_ID, cacheVars, ret, nCalls, nTerminate, accepted,
                    killed, drained, nal, toolVars >>

\* kill(): put("\n") to wake the writer; a SendError is printed and ignored
KillPutSentinel ==
    /\ cpc = "kill_put"
    /\ child_in' = IF SendFails THEN child_in ELSE Append(child_in, "\n")
    /\ cpc' = "kill_join"
    /\ UNCHANGED << status, termination_signal, child_out, thread_write_in,
                    thread_read_out, writerVars, rpc, childVars, stdin_written,
                    NEXT_OPERATOR_ID, cacheVars, ret, nCalls, nTerminate, accepted,
                    killed, drained, nal, toolVars >>

\* faulty variant of KillJoinWriter: the writer's handle is dropped, not joined
KillDropWriter ==
    /\ cpc = "kill_join"
    /\ thread_write_in' = FALSE
    /\ thread_read_out' = FALSE
    /\ cpc' = "kill_proc"
    /\ UNCHANGED << status, termination_signal, child_in, child_out, writerVars,
                    rpc, childVars, stdin_written, NEXT_OPERATOR_ID, cacheVars, ret,
                    nCalls, nTerminate, accepted, killed, drained, nal, toolVars >>

\* faulty variant of KillJoinWriter: the join needs the handle to be there, so a
\* kill() that finds it taken does not get past this point
KillJoinHeldWriter ==
    /\ cpc = "kill_join"
    /\ thread_write_in
    /\ wpc = "done"
    /\ thread_write_in' = FALSE
    /\ thread_read_out' = FALSE
    /\ cpc' = "kill_proc"
    /\ UNCHANGED << status, termination_signal, child_in, child_out, writerVars,
                    rpc, childVars, stdin_written, NEXT_OPERATOR_ID, cacheVars, ret,
                    nCalls, nTerminate, accepted, killed, drained, nal, toolVars >>

\* kill(): thread_write_in.take().map(join), which waits for the writer thread
\* to end when the handle is still held; then drop(thread_read_out.take())
KillJoinWriter ==
    /\ cpc = "kill_join"
    /\ thread_write_in => wpc = "done"
    /\ thread_write_in' = FALSE
    /\ thread_read_out' = FALSE
    /\ cpc' = "kill_proc"
    /\ UNCHANGED << status, termination_signal, child_in, child_out, writerVars,
                    rpc, childVars, stdin_written, NEXT_OPERATOR_ID, cacheVars, ret,
                    nCalls, nTerminate, accepted, killed, drained, nal, toolVars >>

\* faulty variant of KillProcessAndReturn: terminate() leaves the status alone
KillProcessKeepStatus ==
    /\ cpc = "kill_proc"
    /\ alive' = FALSE
    /\ killed' = TRUE
    /\ ret' = TerminateReturn
    /\ cpc' = "idle"
    /\ UNCHANGED << status, channelVars, writerVars, rpc, stdin_pipe, stdout_pipe,
                    produced, stdin_written, NEXT_OPERATOR_ID, cacheVars, nCalls,
                    nTerminate, accepted, drained, nal, toolVars >>

\* kill(): taskkill and Child::kill end the child (a child that has not been
\* waited for can always be signalled, so kill() returns Ok); terminate() then
\* overwrites the status with Terminated(Ok(())) and returns Ok
KillProcessAndReturn ==
    /\ cpc = "kill_proc"
    /\ alive' = FALSE
    /\ status' = TerminatedOk
    /\ killed' = TRUE
    /\ ret' = TerminateReturn
    /\ cpc' = "idle"
    /\ UNCHANGED << channelVars, writerVars, rpc, stdin_pipe, stdout_pipe, produced,
                    stdin_written, NEXT_OPERATOR_ID, cacheVars, nCalls, nTerminate,
                    accepted, drained, nal, toolVars >>

(* --------------------------- writer thread ----------------------------- *)

\* spawn_thread_write_in: `for line in child_in_receiver`, then the check of the
\* termination signal: set => break (the thread ends and drops the Receiver
\* with whatever it still holds).  The signal only ever goes from false to
\* true, so receiving and checking are one step.
WriterRecv ==
    /\ wpc = "recv"
    /\ child_in # << >>
    /\ IF termination_signal
       THEN /\ wpc' = "done"
            /\ wline' = ""
            /\ child_in' = << >>
       ELSE /\ wpc' = "write"
            /\ wline' = Head(child_in)
            /\ child_in' = Tail(child_in)
    /\ UNCHANGED << status, termination_signal, child_out, thread_write_in,
                    thread_read_out, rpc, childVars, stdin_written, NEXT_OPERATOR_ID,
                    cacheVars, cpc, ret, nCalls, nTerminate, accepted, killed, drained,
                    nal, toolVars >>

\* spawn_thread_write_in: stdin.write_all(line).  It waits while the pipe is
\* full; with the child gone it fails with BrokenPipe and the thread ends.
\* (BrokenPipe is the one error a write to an anonymous pipe gives; the arm for
\* other kinds of error is not reachable.)
WriterWrite ==
    /\ wpc = "write"
    /\ ~alive \/ stdin_pipe < PipeCap
    /\ IF ~alive
       THEN /\ wpc' = "done"
            /\ child_in' = << >>
            /\ UNCHANGED << stdin_pipe, stdin_written, toolVars >>
       ELSE /\ wpc' = "recv"
            /\ stdin_pipe' = stdin_pipe + 1
            /\ stdin_written' = Append(stdin_written, wline)
            /\ UNCHANGED child_in
    /\ wline' = ""
    /\ UNCHANGED << status, termination_signal, child_out, thread_write_in,
                    thread_read_out, rpc, alive, stdout_pipe, produced,
                    NEXT_OPERATOR_ID, cacheVars, cpc, ret, nCalls, nTerminate,
                    accepted, killed, drained, nal, toolVars >>

(* --------------------------- reader thread ----------------------------- *)

\* faulty variant of ReaderReadLine: the inbound channel holds one line only
\* (a sync_channel), so the send waits until the caller has fetched
ReaderReadLineBounded ==
    /\ rpc = "read"
    /\ stdout_pipe # << >>
    /\ child_out = << >>
    /\ stdout_pipe' = Tail(stdout_pipe)
    /\ child_out' = IF IsUtf8(Head(stdout_pipe))
                    THEN Append(child_out, Head(stdout_pipe))
                    ELSE child_out
    /\ UNCHANGED << status, termination_signal, child_in, thread_write_in,
                    thread_read_out, writerVars, rpc, alive, stdin_pipe, produced,
                    stdin_written, NEXT_OPERATOR_ID, cacheVars, cpc, ret, nCalls,
                    nTerminate, accepted, killed, drained, nal, toolVars >>

\* spawn_thread_read_out, read_line gives a line: Ok(n) => (no listener is
\* configured by the launcher) send it on the inbound channel; a line that is
\* not UTF-8 => Err "stream did not contain valid UTF-8": nothing is done with
\* it and the loop goes on
ReaderReadLine ==
    /\ rpc = "read"
    /\ stdout_pipe # << >>
    /\ stdout_pipe' = Tail(stdout_pipe)
    /\ child_out' = IF IsUtf8(Head(stdout_pipe))
                    THEN Append(child_out, Head(stdout_pipe))
                    ELSE child_out
    /\ UNCHANGED << status, termination_signal, child_in, thread_write_in,
                    thread_read_out, writerVars, rpc, alive, stdin_pipe, produced,
                    stdin_written, NEXT_OPERATOR_ID, cacheVars, cpc, ret, nCalls,
                    nTerminate, accepted, killed, drained, nal, toolVars >>

\* faulty variant of ReaderEof: the termination signal is not looked at
ReaderEofIgnoresSignal ==
    /\ rpc = "read"
    /\ stdout_pipe = << >>
    /\ ~alive
    /\ UNCHANGED vars

\* spawn_thread_read_out, read_line gives Ok(0), the end of the child's output:
\* break if the termination signal is set (the thread ends and drops the
\* Sender), else loop
ReaderEof ==
    /\ rpc = "read"
    /\ stdout_pipe = << >>
    /\ ~alive
    /\ rpc' = IF termination_signal THEN "done" ELSE "read"
    /\ UNCHANGED << status, channelVars, writerVars, childVars, stdin_written,
                    NEXT_OPERATOR_ID, cacheVars, cpc, ret, nCalls, nTerminate,
                    accepted, killed, drained, nal, toolVars >>

(* ---------------------------- child process ---------------------------- *)

\* the child prints a line on its stdout
ChildPrint(line) ==
    /\ alive
    /\ Len(produced) < MaxLines
    /\ stdout_pipe' = Append(stdout_pipe, line)
    /\ produced' = Append(produced, line)
    /\ UNCHANGED << status, channelVars, writerVars, rpc, alive, stdin_pipe,
                    stdin_written, NEXT_OPERATOR_ID, cacheVars, cpc, ret, nCalls,
                    nTerminate, accepted, killed, drained, nal, toolVars >>

\* the child reads a line from its stdin
ChildReadStdin ==
    /\ alive
    /\ stdin_pipe > 0
    /\ stdin_pipe' = stdin_pipe - 1
    /\ UNCHANGED << status, channelVars, writerVars, rpc, alive, stdout_pipe,
                    produced, stdin_written, NEXT_OPERATOR_ID, cacheVars, cpc, ret,
                    nCalls, nTerminate, accepted, killed, drained, nal, toolVars >>

\* the child exits by itself; what it printed stays readable in the pipe
ChildExit ==
    /\ alive
    /\ alive' = FALSE
    /\ UNCHANGED << status, channelVars, writerVars, rpc, stdin_pipe, stdout_pipe,
                    produced, stdin_written, NEXT_OPERATOR_ID, cacheVars, cpc, ret,
                    nCalls, nTerminate, accepted, killed, drained, nal, toolVars >>

(* ----------------------- term_equal.rs, called ------------------------- *)

\* the terms of the examples of term_equal.rs (tests::semantical_eq, tests::sort)
SimAB == Sim(Word("A"), Word("B"))
SimBA == Sim(Word("B"), Word("A"))
InhAB == Inh(Word("A"), Word("B"))
LockKey12 ==
    Impl(Conj(<< Inh(IVar("1"), Word("lock")), Inh(IVar("2"), Word("key")) >>),
         Inh(IVar("1"), ExtImage(<< Word("open"), IVar("2"), Placeholder >>)))
LockKeyXY ==
    Impl(Conj(<< Inh(IVar("x"), Word("key")), Inh(IVar("y"), Word("lock")) >>),
         Inh(IVar("y"), ExtImage(<< Word("open"), IVar("x"), Placeholder >>)))

\* further terms: a conjunction whose words are named like its variables, a set
\* of two variables in both orders, statements with a word named like their
\* variable or like a number, a product in both orders
ConjAbBa == Conj(<< Inh(IVar("a"), Word("b")), Inh(IVar("b"), Word("a")) >>)
SetAB == ExtSet(<< IVar("a"), DVar("b") >>)
SetBA == ExtSet(<< DVar("b"), IVar("a") >>)
InhXx == Inh(IVar("x"), Word("x"))
InhYx == Inh(IVar("y"), Word("x"))
InhY1 == Inh(IVar("y"), Word("1"))
ProdAB == Prod(<< Word("A"), Word("B") >>)
ProdBA == Prod(<< Word("B"), Word("A") >>)

Terms ==
    { SimAB, SimBA, InhAB, LockKey12, LockKeyXY, ConjAbBa, SetAB, SetBA, InhXx,
      InhYx, InhY1, ProdAB, ProdBA }

\* the conjunctions (&&,<v1 --> w1>,<v2 --> w2>) and the products of variables
\* of all kinds, for the functions that work on one term
TermsOfOne ==
    Terms
    \cup { Conj(<< Inh(v1, w1), Inh(v2, w2) >>) :
             v1 \in {IVar("a"), IVar("b")}, w1 \in {Word("a"), Word("b")},
             v2 \in {IVar("a"), IVar("b")}, w2 \in {Word("a"), Word("b")} }
    \cup { Prod(<< v1, v2, v3 >>) :
             v1 \in {IVar("b"), QVar("2")}, v2 \in {IVar("a"), DVar("b")},
             v3 \in {IVar("b"), Word("b"), IVar("1")} }

\* semantical_equal_mut after both formalize_term calls, f1 and f2 being what
\* they gave: a panic of the first ends the call before the second term changes
SemanticalEqualFormalized(term2, f1, f2) ==
    [panic |-> f1.panic \/ f2.panic,
     term1 |-> f1.term,
     term2 |-> IF f1.panic THEN term2 ELSE f2.term,
     equal |-> ~f1.panic /\ ~f2.panic /\ f1.term = f2.term]

\* semantical_equal_mut: both terms are formalized in place, then compared
semantical_equal_mut(term1, term2) ==
    SemanticalEqualFormalized(term2, formalize_term(term1), formalize_term(term2))

\* the ordered pairs of different slots among n
SlotPairs(n) == { p \in (1..n) \X (1..n) : p[1] # p[2] }

\* the functions are called on n terms of `terms`
InitTm(terms, n) ==
    \E orig \in [1..n -> terms] :
        tm = [NoTm EXCEPT !.orig = orig, !.terms = orig,
                          !.equal = [p \in SlotPairs(n) |-> "?"]]

\* tm after the call `op` on slot i returned r
TmCalled(op, i, r) ==
    [tm EXCEPT !.terms[i] = r.term,
               !.panic = r.panic,
               !.last = [op |-> op, i |-> i, j |-> 0, before |-> tm.terms[i],
                         modified |-> r.modified]]

\* rename_variables_in_term(&mut terms[i])
RenameVariablesInTerm(i) ==
    /\ ~tm.panic
    /\ tm' = TmCalled("rename_variables_in_term", i,
                      [panic |-> FALSE] @@ rename_variables_in_term(tm.terms[i]))
    /\ UNCHANGED << status, channelVars, writerVars, rpc, childVars, stdin_written,
                    NEXT_OPERATOR_ID, cacheVars, cpc, ret, nCalls, nTerminate,
                    accepted, killed, drained, nal, ex, hostVars >>

\* sort_communicative_terms(&mut terms[i])
SortCommunicativeTerms(i) ==
    /\ ~tm.panic
    /\ tm' = TmCalled("sort_communicative_terms", i,
                      [panic |-> FALSE] @@ sort_communicative_terms(tm.terms[i]))
    /\ UNCHANGED << status, channelVars, writerVars, rpc, childVars, stdin_written,
                    NEXT_OPERATOR_ID, cacheVars, cpc, ret, nCalls, nTerminate,
                    accepted, killed, drained, nal, ex, hostVars >>

\* formalize_term(&mut terms[i]); a panic ends the thread that called it (the
\* function returns the term, not `modified`)
FormalizeTerm(i) ==
    /\ ~tm.panic
    /\ tm' = TmCalled("formalize_term", i,
                      [modified |-> FALSE] @@ formalize_term(tm.terms[i]))
    /\ UNCHANGED << status, channelVars, writerVars, rpc, childVars, stdin_written,
                    NEXT_OPERATOR_ID, cacheVars, cpc, ret, nCalls, nTerminate,
                    accepted, killed, drained, nal, ex, hostVars >>

\* tm after semantical_equal_mut on the slots i and j returned r
TmCompared(i, j, r) ==
    [tm EXCEPT !.terms[i] = r.term1,
               !.terms[j] = r.term2,
               !.panic = r.panic,
               !.equal[<< i, j >>] =
                   IF r.panic THEN "?" ELSE IF r.equal THEN "true" ELSE "false"]

\* semantical_equal_mut(&mut terms[i], &mut terms[j]), once for a pair of slots
SemanticalEqualMut(i, j) ==
    /\ ~tm.panic
    /\ tm.equal[<< i, j >>] = "?"
    /\ tm' = TmCompared(i, j, semantical_equal_mut(tm.terms[i], tm.terms[j]))
    /\ UNCHANGED << status, channelVars, writerVars, rpc, childVars, stdin_written,
                    NEXT_OPERATOR_ID, cacheVars, cpc, ret, nCalls, nTerminate,
                    accepted, killed, drained, nal, ex, hostVars >>

\* the terms term_comparator is called on: words, variables of two kinds, the
\* products (*, A), (*, A, A), (*, A, B) and (*, B, A), a set and statements
CompareTerms ==
    { Word("A"), Word("B"), IVar("x"), DVar("y"), Prod(<< Word("A") >>),
      Prod(<< Word("A"), Word("A") >>), ProdAB, ProdBA, SetAB, InhAB, InhXx, InhYx }

\* term_comparator(&terms[i], &terms[j]), once for a pair of slots
TermComparator(i, j) ==
    /\ tm.equal[<< i, j >>] = "?"
    /\ tm' = [tm EXCEPT !.equal[<< i, j >>] = term_comparator(tm.terms[i], tm.terms[j]),
                        !.last = [op |-> "term_comparator", i |-> i, j |-> j,
                                  before |-> tm.terms[i], modified |-> FALSE]]
    /\ UNCHANGED << status, channelVars, writerVars, rpc, childVars, stdin_written,
                    NEXT_OPERATOR_ID, cacheVars, cpc, ret, nCalls, nTerminate,
                    accepted, killed, drained, nal, ex, hostVars >>

(* ------------------- narsese_expectation.rs, called -------------------- *)

\* FloatPrecision (f64): n times the binary fraction for a finite value,
\* f64::INFINITY, f64::NEG_INFINITY, f64::NAN
Float(n) == [kind |-> "finite", n |-> n]
INFINITY == [kind |-> "infinite", n |-> 1]
NEG_INFINITY == [kind |-> "infinite", n |-> -1]
NAN == [kind |-> "nan", n |-> 0]

\* f64: ==
FloatEq(x, y) == x.kind # "nan" /\ y.kind # "nan" /\ x = y

\* f64: -
FloatSub(x, y) ==
    CASE x.kind = "nan" \/ y.kind = "nan" -> NAN
      [] x.kind = "finite" /\ y.kind = "finite" -> Float(x.n - y.n)
      [] x.kind = "infinite" /\ y.kind = "finite" -> x
      [] x.kind = "finite" /\ y.kind = "infinite" -> [y EXCEPT !.n = -y.n]
      [] OTHER -> IF x.n = y.n THEN NAN ELSE x

\* f64::abs
FloatAbs(x) == IF x.n < 0 THEN [x EXCEPT !.n = -x.n] ELSE x

\* f64: <=
FloatLe(x, y) ==
    CASE x.kind = "nan" \/ y.kind = "nan" -> FALSE
      [] x.kind = "finite" /\ y.kind = "finite" -> x.n <= y.n
      [] x.kind = "infinite" /\ y.kind = "finite" -> x.n < 0
      [] x.kind = "finite" /\ y.kind = "infinite" -> y.n > 0
      [] OTHER -> x.n <= y.n

\* faulty variant of is_expected_float: the difference is not made absolute
is_expected_float_signed(expected, out, precision_epoch) ==
    IF FloatEq(precision_epoch, Float(0)) THEN FloatEq(expected, out)
    ELSE FloatLe(FloatSub(expected, out), precision_epoch)

\* is_expected_float
is_expected_float(expected, out, precision_epoch) ==
    IF FloatEq(precision_epoch, Float(0)) THEN FloatEq(expected, out)
    ELSE FloatLe(FloatAbs(FloatSub(expected, out)), precision_epoch)

\* the values of a truth or budget component, and the precisions
Floats == { Float(n) : n \in 0..MaxFloat }
Precisions ==
    { NEG_INFINITY, Float(-1), Float(0), Float(1), Float(2), Float(MaxFloat), INFINITY, NAN }

\* "true" / "false" for what a call returned
Returned(b) == IF b THEN "true" ELSE "false"

\* is_expected_float(&ex.expected, &ex.out, ex.precision_epoch)
IsExpectedFloat ==
    /\ ex.op = "" /\ ex.of = "is_expected_float"
    /\ ex' = [ex EXCEPT !.op = "is_expected_float",
                        !.result = Returned(is_expected_float(ex.expected, ex.out,
                                                              ex.precision_epoch))]
    /\ UNCHANGED << status, channelVars, writerVars, rpc, childVars, stdin_written,
                    NEXT_OPERATOR_ID, cacheVars, cpc, ret, nCalls, nTerminate,
                    accepted, killed, drained, nal, tm, hostVars >>

\* the arguments of a call of `of`, not made yet
InitEx(of, expecteds, outs, precisions) ==
    \E expected \in expecteds, out \in outs, precision_epoch \in precisions :
        ex = [op |-> "", of |-> of, expected |-> expected, out |-> out,
              precision_epoch |-> precision_epoch, result |-> "?"]

\* lexical Narsese (NarseseValue): a term; a sentence: term, punctuation, stamp,
\* truth; a task: budget and sentence. A truth is the sequence of its values
\* (none: empty, one: single, two: double), a budget likewise (up to three)
NarseseTerm(term) ==
    [variant |-> "Term", term |-> term, punctuation |-> "", stamp |-> "",
     truth |-> << >>, budget |-> << >>]
NarseseSentence(term, punctuation, stamp, truth) ==
    [variant |-> "Sentence", term |-> term, punctuation |-> punctuation,
     stamp |-> stamp, truth |-> truth, budget |-> << >>]
NarseseTask(budget, term, punctuation, stamp, truth) ==
    [variant |-> "Task", term |-> term, punctuation |-> punctuation,
     stamp |-> stamp, truth |-> truth, budget |-> budget]

\* PartialFoldResult::try_from: what is folded beside the term (of values whose
\* truth, stamp, budget and punctuation fold)
try_from(narsese) ==
    CASE narsese.variant = "Term" ->
            [truth |-> None, stamp |-> None, budget |-> None, punctuation |-> None]
      [] narsese.variant = "Sentence" ->
            [truth |-> Some(narsese.truth), stamp |-> Some(narsese.stamp),
             budget |-> None, punctuation |-> Some(narsese.punctuation)]
      [] narsese.variant = "Task" ->
            [truth |-> Some(narsese.truth), stamp |-> Some(narsese.stamp),
             budget |-> Some(narsese.budget),
             punctuation |-> Some(narsese.punctuation)]

\* is_expected_float on the first n values of two truths or budgets
RECURSIVE IsExpectedFloats(_, _, _, _)
IsExpectedFloats(expected, out, n, precision_epoch) ==
    IF n = 0 THEN TRUE
    ELSE /\ IsExpectedFloats(expected, out, n - 1, precision_epoch)
         /\ is_expected_float(expected[n], out[n], precision_epoch)

\* faulty variant of is_expected_truth: an empty expected truth is no wildcard
is_expected_truth_exact(expected, out, precision_epoch) ==
    /\ Len(expected) = Len(out)
    /\ IsExpectedFloats(expected, out, Len(expected), precision_epoch)

\* is_expected_truth: [Empty, ..], [Single, Single | Double], [Double, Double]
is_expected_truth(expected, out, precision_epoch) ==
    CASE Len(expected) = 0 -> TRUE
      [] Len(expected) = 1 /\ Len(out) \in {1, 2} ->
            IsExpectedFloats(expected, out, 1, precision_epoch)
      [] Len(expected) = 2 /\ Len(out) = 2 ->
            IsExpectedFloats(expected, out, 2, precision_epoch)
      [] OTHER -> FALSE

\* is_expected_budget: [Empty, ..], [Single, Single | Double | Triple],
\* [Double, Double | Triple], [Triple, Triple]
is_expected_budget(expected, out, precision_epoch) ==
    CASE Len(expected) = 0 -> TRUE
      [] Len(expected) = 1 /\ Len(out) \in {1, 2, 3} ->
            IsExpectedFloats(expected, out, 1, precision_epoch)
      [] Len(expected) = 2 /\ Len(out) \in {2, 3} ->
            IsExpectedFloats(expected, out, 2, precision_epoch)
      [] Len(expected) = 3 /\ Len(out) = 3 ->
            IsExpectedFloats(expected, out, 3, precision_epoch)
      [] OTHER -> FALSE

\* both_and!(@SINGLE ... => expected == out): both Some and equal, or both None
BothAndEqual(l, r) ==
    CASE l.some /\ r.some -> l.v = r.v
      [] ~l.some /\ ~r.some -> TRUE
      [] OTHER -> FALSE

\* both_and!(@SINGLE @EMPTY_WILDCARD ...) on the truths
EmptyWildcardTruth(exp, out, precision_epoch) ==
    CASE exp.some /\ out.some -> is_expected_truth(exp.v, out.v, precision_epoch)
      [] ~exp.some -> TRUE
      [] OTHER -> FALSE

\* both_and!(@SINGLE @EMPTY_WILDCARD ...) on the budgets
EmptyWildcardBudget(exp, out, precision_epoch) ==
    CASE exp.some /\ out.some -> is_expected_budget(exp.v, out.v, precision_epoch)
      [] ~exp.some -> TRUE
      [] OTHER -> FALSE

\* PartialFoldResult::is_expected_out
is_expected_out(self, out, precision_epoch) ==
    /\ BothAndEqual(self.punctuation, out.punctuation)
    /\ BothAndEqual(self.stamp, out.stamp)
    /\ EmptyWildcardTruth(self.truth, out.truth, precision_epoch)
    /\ EmptyWildcardBudget(self.budget, out.budget, precision_epoch)

\* _is_expected_narsese after semantical_equal_mut on the two terms gave `eq`:
\* "panic" where it panicked, else "true" or "false"
IsExpectedNarseseCompared(eq, expected, out, precision_epoch) ==
    IF eq.panic THEN "panic"
    ELSE IF ~eq.equal THEN "false"
    ELSE Returned(is_expected_out(try_from(expected), try_from(out), precision_epoch))

\* is_expected_narsese_lexical, _is_expected_narsese (on clones of both values)
is_expected_narsese_lexical(expected, out, precision_epoch) ==
    IsExpectedNarseseCompared(semantical_equal_mut(expected.term, out.term),
                              expected, out, precision_epoch)

\* the truths, budgets, punctuations and stamps of the values below
Truths == { << >>, << Float(2) >>, << Float(2), Float(3) >>, << Float(3), Float(3) >> }
Budgets ==
    { << >>, << Float(2) >>, << Float(2), Float(2) >>,
      << Float(2), Float(2), Float(2) >>, << Float(3), Float(2), Float(2) >> }
Punctuations == { ".", "?" }
Stamps == { "", ":|:" }

\* terms; sentences on the term A, and on <B <-> A> for <A <-> B>; tasks
NarseseValues ==
    { NarseseTerm(term) : term \in { Word("A"), SimAB, ConjAbBa } }
    \cup { NarseseSentence(Word("A"), punctuation, stamp, truth) :
             punctuation \in Punctuations, stamp \in Stamps, truth \in Truths }
    \cup { NarseseSentence(term, ".", "", << Float(2), Float(3) >>) :
             term \in { SimAB, SimBA } }
    \cup { NarseseTask(budget, Word("A"), ".", "", truth) :
             budget \in Budgets, truth \in { << >>, << Float(2), Float(3) >> } }

\* is_expected_narsese_lexical(&ex.expected, &ex.out, ex.precision_epoch)
IsExpectedNarseseLexical ==
    /\ ex.op = "" /\ ex.of = "is_expected_narsese_lexical"
    /\ ex' = [ex EXCEPT !.op = "is_expected_narsese_lexical",
                        !.result = is_expected_narsese_lexical(ex.expected, ex.out,
                                                               ex.precision_epoch)]
    /\ UNCHANGED << status, channelVars, writerVars, rpc, childVars, stdin_written,
                    NEXT_OPERATOR_ID, cacheVars, cpc, ret, nCalls, nTerminate,
                    accepted, killed, drained, nal, tm, hostVars >>

\* navm::output::Operation: operator_name and params (terms)
Operation(operator_name, params) == [operator_name |-> operator_name, params |-> params]

\* Operation::no_params
no_params(operation) == operation.params = << >>

\* is_expected_operation
is_expected_operation(expected, out) ==
    IF expected.operator_name # out.operator_name THEN FALSE
    ELSE CASE no_params(expected) -> TRUE
           [] ~no_params(expected) /\ no_params(out) -> FALSE
           [] OTHER -> expected.params = out.params

\* navm::output::Output as matches reads it: type_name(), get_narsese(),
\* get_operation()
NavmOutput(type, narsese, operation) ==
    [type |-> type, narsese |-> narsese, operation |-> operation]

\* OutputExpectation, all three fields
Expectation(output_type, narsese, operation) ==
    [output_type |-> output_type, narsese |-> narsese, operation |-> operation]

\* OutputExpectation::matches, the output type
MatchesOutputType(e, output) ==
    ~e.output_type.some \/ e.output_type.v = output.type

\* OutputExpectation::matches, the Narsese: "true" where the call goes on,
\* "false" where it returns false, "panic" where the comparison panicked
MatchesNarsese(e, output, precision_epoch) ==
    CASE e.narsese.some /\ ~output.narsese.some -> "false"
      [] e.narsese.some /\ output.narsese.some ->
            is_expected_narsese_lexical(e.narsese.v, output.narsese.v, precision_epoch)
      [] OTHER -> "true"

\* faulty variant of MatchesOperation: with no operation expected, only an
\* output without operation passes
MatchesOperationBothOrNeither(e, output) ==
    CASE ~e.operation.some -> ~output.operation.some
      [] e.operation.some /\ ~output.operation.some -> FALSE
      [] OTHER -> is_expected_operation(e.operation.v, output.operation.v)

\* OutputExpectation::matches, the operation
MatchesOperation(e, output) ==
    CASE ~e.operation.some -> TRUE
      [] e.operation.some /\ ~output.operation.some -> FALSE
      [] OTHER -> is_expected_operation(e.operation.v, output.operation.v)

\* OutputExpectation::matches after the Narsese gave `narsese`
MatchesAfterNarsese(narsese, e, output) ==
    IF narsese # "true" THEN narsese ELSE Returned(MatchesOperation(e, output))

\* OutputExpectation::matches with all three fields: "true", "false", or
\* "panic" where the comparison of the terms panicked
OutputExpectationMatches(e, output, precision_epoch) ==
    IF ~MatchesOutputType(e, output) THEN "false"
    ELSE MatchesAfterNarsese(MatchesNarsese(e, output, precision_epoch), e, output)

\* the Narsese values and operations of the expectations and outputs below
MatchNarsese ==
    { NarseseTerm(ConjAbBa),
      NarseseSentence(Word("A"), ".", "", << >>),
      NarseseSentence(Word("A"), ".", "", << Float(2), Float(3) >>),
      NarseseSentence(SimAB, ".", "", << Float(2), Float(3) >>),
      NarseseSentence(SimBA, ".", "", << Float(2), Float(3) >>) }
MatchOperations ==
    { Operation("left", << >>), Operation("left", << ExtSet(<< Word("A") >>) >>),
      Operation("left", << ExtSet(<< Word("B") >>) >>), Operation("right", << >>) }

\* expectations: any of the three fields may be absent
OutputExpectations ==
    { Expectation(output_type, narsese, operation) :
        output_type \in { None, Some("OUT"), Some("EXE") },
        narsese \in { None } \cup { Some(n) : n \in MatchNarsese },
        operation \in { None } \cup { Some(o) : o \in MatchOperations } }

\* outputs: OUT and ANSWER have a Narsese or none (it did not parse), EXE has
\* an operation, INFO has neither
NavmOutputs ==
    { NavmOutput(type, narsese, None) :
        type \in { "OUT", "ANSWER" },
        narsese \in { None } \cup { Some(n) : n \in MatchNarsese } }
    \cup { NavmOutput("EXE", None, Some(o)) : o \in MatchOperations }
    \cup { NavmOutput("INFO", None, None) }

\* ex.expected.matches(&ex.out, ex.precision_epoch)
Matches ==
    /\ ex.op = "" /\ ex.of = "matches"
    /\ ex' = [ex EXCEPT !.op = "matches",
                        !.result = OutputExpectationMatches(ex.expected, ex.out,
                                                            ex.precision_epoch)]
    /\ UNCHANGED << status, channelVars, writerVars, rpc, childVars, stdin_written,
                    NEXT_OPERATOR_ID, cacheVars, cpc, ret, nCalls, nTerminate,
                    accepted, killed, drained, nal, tm, hostVars >>

(* ------------------------------ launch --------------------------------- *)

\* the translators a launcher can give to the builder
TranslatorKinds == {"ona", "default"}

\* no runtime: no child, no threads, nothing the caller can call on
NotLaunched == [tag |-> "NotLaunched", result |-> "", description |-> ""]

\* CommandVm::input_translator
VmInputTranslator(translator) ==
    /\ ~vm.launched
    /\ vm' = [vm EXCEPT !.input_translator = Some(translator)]
    /\ UNCHANGED << status, channelVars, writerVars, rpc, childVars, stdin_written,
                    NEXT_OPERATOR_ID, cacheVars, cpc, ret, nCalls, nTerminate,
                    accepted, killed, drained, nal, tm, ex, cli >>

\* CommandVm::output_translator
VmOutputTranslator(translator) ==
    /\ ~vm.launched
    /\ vm' = [vm EXCEPT !.output_translator = Some(translator)]
    /\ UNCHANGED << status, channelVars, writerVars, rpc, childVars, stdin_written,
                    NEXT_OPERATOR_ID, cacheVars, cpc, ret, nCalls, nTerminate,
                    accepted, killed, drained, nal, tm, ex, cli >>

\* CommandVm::translators
VmTranslators(translators) ==
    /\ ~vm.launched
    /\ vm' = [vm EXCEPT !.input_translator = Some(translators.input_translator),
                        !.output_translator = Some(translators.output_translator)]
    /\ UNCHANGED << status, channelVars, writerVars, rpc, childVars, stdin_written,
                    NEXT_OPERATOR_ID, cacheVars, cpc, ret, nCalls, nTerminate,
                    accepted, killed, drained, nal, tm, ex, cli >>

\* the translators of the runtime that launch() builds: those given, else the
\* default ones
LaunchedTranslators(builder) ==
    Translators(unwrap_or(builder.input_translator, "default"),
                unwrap_or(builder.output_translator, "default"))

\* CommandVm::launch; `spawned`: Command::spawn succeeds (it fails when the
\* executable does not exist).  On success the child runs and
\* IoProcessManager::new has started both threads.
Launch(spawned) ==
    /\ ~vm.launched
    /\ IF spawned
       THEN /\ vm' = [vm EXCEPT !.launched = TRUE, !.runtime = LaunchedTranslators(vm)]
            /\ ret' = Ret("launch", NoCmd, "Ok", "", NoOutput)
            /\ status' = Running
            /\ thread_write_in' = TRUE
            /\ thread_read_out' = TRUE
            /\ wpc' = "recv"
            /\ rpc' = "read"
            /\ alive' = TRUE
            /\ cpc' = "idle"
       ELSE /\ vm' = [vm EXCEPT !.launched = TRUE]
            /\ ret' = Ret("launch", NoCmd, "Err", "spawn", NoOutput)
            /\ UNCHANGED << status, thread_write_in, thread_read_out, wpc, rpc, alive,
                            cpc >>
    /\ UNCHANGED << termination_signal, child_in, child_out, wline, stdin_pipe,
                    stdout_pipe, produced, stdin_written, NEXT_OPERATOR_ID, cacheVars,
                    nCalls, nTerminate, accepted, killed, drained, nal, tm, ex, cli >>

(* --------------------------- CLI: the locks ---------------------------- *)

\* The threads of RuntimeManager share Arc<Mutex<runtime>> and
\* Arc<Mutex<OutputCache>>.  Mutex::lock waits while another thread holds the
\* lock: an action that takes a lock is enabled only when the lock is free, and
\* a thread that is at such an action is waiting for the lock.

\* everything but cli
notCli ==
    << status, channelVars, writerVars, rpc, childVars, stdin_written,
       NEXT_OPERATOR_ID, cacheVars, cpc, ret, nCalls, nTerminate, accepted, killed,
       drained, nal, tm, ex, vm >>

\* thread t goes to `pc`; the locks become held by `runtime` and `output_cache`
CliAt(t, pc, runtime, output_cache) ==
    [cli EXCEPT !.pc[t] = pc, !.runtime = runtime, !.output_cache = output_cache]

\* `if let VmStatus::Terminated(..) = runtime.status()`
IsTerminated == status.tag = "Terminated"

\* prelude_nal: self.runtime.lock(); without a prelude NAL it returns
\* Continue(Ok(())) at once, and the guard is dropped
PreludeLockRuntime ==
    /\ cli.pc["main"] = "prelude"
    /\ cli.runtime = ""
    /\ cli' = IF cli.config.prelude_nal
              THEN CliAt("main", "lock_cache", "main", cli.output_cache)
              ELSE CliAt("main", "check", "", cli.output_cache)
    /\ UNCHANGED notCli

\* prelude_nal: OutputCache::unlock_arc_mutex(&mut self.output_cache)
PreludeLockCache ==
    /\ cli.pc["main"] = "lock_cache"
    /\ cli.output_cache = ""
    /\ cli' = CliAt("main", "both", cli.runtime, "main")
    /\ UNCHANGED notCli

\* prelude_nal: input_nal_to_vm has returned; Break in strict mode (manage
\* returns), else Continue; both guards are dropped
PreludeReturn ==
    /\ cli.pc["main"] = "both"
    /\ cpc = "idle"
    /\ cli' = CliAt("main", IF cli.config.strict_mode THEN "done" ELSE "check", "", "")
    /\ UNCHANGED notCli

\* manage: `self.runtime.lock()?.status()`, the guard is dropped at once; a
\* terminated runtime without user input ends manage
ManageCheckStatus ==
    /\ cli.pc["main"] = "check"
    /\ cli.runtime = ""
    /\ cli' = CliAt("main",
                    IF IsTerminated /\ ~cli.config.user_input THEN "done" ELSE "spawn",
                    cli.runtime, cli.output_cache)
    /\ UNCHANGED notCli

\* manage: try_spawn_ws_server (spawn_ws_server ends with register_listener,
\* which locks the output cache, adds the broadcast handler and drops the
\* guard), then spawn_user_input; then the threads are joined
ManageSpawn ==
    /\ cli.pc["main"] = "spawn"
    /\ cli.config.websocket => cli.output_cache = ""
    /\ cli' = [cli EXCEPT !.pc["main"] = "join",
                          !.pc["websocket"] = IF cli.config.websocket THEN "wait" ELSE "none",
                          !.pc["user_input"] =
                              IF cli.config.user_input THEN "read_line" ELSE "none"]
    /\ output_handlers' = IF cli.config.websocket
                          THEN Append(output_handlers, "ws_broadcast")
                          ELSE output_handlers
    /\ UNCHANGED << status, channelVars, writerVars, rpc, childVars, stdin_written,
                    NEXT_OPERATOR_ID, inner, handle_result, offered, cpc, ret, nCalls,
                    nTerminate, accepted, killed, drained, nal, tm, ex, vm >>

\* spawn_read_output, top of the loop: runtime.lock(); a terminated runtime
\* ends the thread (the guard is dropped)
ReadLockRuntime ==
    /\ cli.pc["read_output"] = "lock_runtime"
    /\ cli.runtime = ""
    /\ cli' = IF IsTerminated
              THEN CliAt("read_output", "done", "", cli.output_cache)
              ELSE CliAt("read_output", "fetch", "read_output", cli.output_cache)
    /\ UNCHANGED notCli

\* spawn_read_output: `while let Ok(Some(output)) = runtime.try_fetch_output()`;
\* `more`: there is an output.  Without one the iteration ends and the runtime
\* guard is dropped.
ReadFetch(more) ==
    /\ cli.pc["read_output"] = "fetch"
    /\ cli' = IF more
              THEN CliAt("read_output", "lock_cache", cli.runtime, cli.output_cache)
              ELSE CliAt("read_output", "lock_runtime", "", cli.output_cache)
    /\ UNCHANGED notCli

\* spawn_read_output: output_cache.lock()
ReadLockCache ==
    /\ cli.pc["read_output"] = "lock_cache"
    /\ cli.output_cache = ""
    /\ cli' = CliAt("read_output", "put", cli.runtime, "read_output")
    /\ UNCHANGED notCli

\* spawn_read_output: output_cache.put(output)?, the cache guard is dropped
ReadPut ==
    /\ cli.pc["read_output"] = "put"
    /\ cli' = CliAt("read_output", "fetch", cli.runtime, "")
    /\ UNCHANGED notCli

\* spawn_user_input: ReadlineIter gives a line
UserReadLine ==
    /\ cli.pc["user_input"] = "read_line"
    /\ cli' = CliAt("user_input", "lock_runtime", cli.runtime, cli.output_cache)
    /\ UNCHANGED notCli

\* faulty variant of UserLockRuntime: the thread locks the output cache
\* first, and the runtime while it holds the cache
UserLockCacheFirst ==
    /\ cli.pc["user_input"] = "lock_runtime"
    /\ IF cli.output_cache # "user_input"
       THEN /\ cli.output_cache = ""
            /\ cli' = CliAt("user_input", "lock_runtime", cli.runtime, "user_input")
       ELSE /\ cli.runtime = ""
            /\ cli' = CliAt("user_input", "both", "user_input", cli.output_cache)
    /\ UNCHANGED notCli

\* spawn_user_input: runtime.lock(); a terminated runtime ends the thread
UserLockRuntime ==
    /\ cli.pc["user_input"] = "lock_runtime"
    /\ cli.runtime = ""
    /\ cli' = IF IsTerminated
              THEN CliAt("user_input", "done", "", cli.output_cache)
              ELSE CliAt("user_input", "lock_cache", "user_input", cli.output_cache)
    /\ UNCHANGED notCli

\* spawn_user_input: output_cache.lock()
UserLockCache ==
    /\ cli.pc["user_input"] = "lock_cache"
    /\ cli.output_cache = ""
    /\ cli' = CliAt("user_input", "both", cli.runtime, "user_input")
    /\ UNCHANGED notCli

\* spawn_user_input: input_line_to_vm has returned, the iteration ends and both
\* guards are dropped
UserInputDone ==
    /\ cli.pc["user_input"] = "both"
    /\ cpc = "idle"
    /\ cli' = CliAt("user_input", "read_line", "", "")
    /\ UNCHANGED notCli

\* a Websocket message arrives: on_message is called
WsMessage ==
    /\ cli.pc["websocket"] = "wait"
    /\ cli' = CliAt("websocket", "lock_runtime", cli.runtime, cli.output_cache)
    /\ UNCHANGED notCli

\* on_message: self.runtime.lock()
WsLockRuntime ==
    /\ cli.pc["websocket"] = "lock_runtime"
    /\ cli.runtime = ""
    /\ cli' = CliAt("websocket", "lock_cache", "websocket", cli.output_cache)
    /\ UNCHANGED notCli

\* on_message: self.output_cache.lock()
WsLockCache ==
    /\ cli.pc["websocket"] = "lock_cache"
    /\ cli.output_cache = ""
    /\ cli' = CliAt("websocket", "both", cli.runtime, "websocket")
    /\ UNCHANGED notCli

\* on_message: input_line_to_vm has returned, on_message returns and both
\* guards are dropped
WsReturn ==
    /\ cli.pc["websocket"] = "both"
    /\ cpc = "idle"
    /\ cli' = CliAt("websocket", "wait", "", "")
    /\ UNCHANGED notCli

(* --------------------------- specification ----------------------------- *)

\* the caller's terminate(), step by step
Terminate ==
    \/ KillSetSignal
    \/ KillPutSentinel
    \/ KillJoinWriter
    \/ KillProcessAndReturn

\* the inbound half: commands go in, the writer thread writes them, the child
\* reads them; the child prints nothing
NextIn ==
    \/ \E cmd \in Cmds : InputCmd(cmd)
    \/ Terminate
    \/ WriterRecv
    \/ WriterWrite
    \/ ChildReadStdin
    \/ ChildExit

\* the outbound half: the child prints, the reader thread queues, the caller
\* fetches; the caller gives no command (the writer only ever receives the
\* sentinel of kill())
NextOut ==
    \/ TryFetchOutput
    \/ FetchOutputCall
    \/ FetchOutputReturn
    \/ Terminate
    \/ WriterRecv
    \/ ReaderReadLine
    \/ ReaderEof
    \/ \E line \in ChildLines : ChildPrint(line)
    \/ ChildExit

\* the output cache by itself: handlers are added, outputs are put
NextCache ==
    \/ \E handler \in HandlerKinds : add_handler(handler)
    \/ \E output \in PutOutputs : Put(output)

\* the NAL inputs: the child prints, the reader thread queues, the caller
\* executes ExpectContains and ExpectCycle
NextNal ==
    \/ \E e \in Expectations : NalExpectContains(e)
    \/ \E max_cycles \in 0..MaxCycles, step_cycles \in 1..MaxStep, e \in Expectations :
           NalExpectCycleCall(max_cycles, step_cycles, e)
    \/ NalExpectCycleStep
    \/ ReaderReadLine
    \/ \E line \in {LineDerived, LineBadExe} : ChildPrint(line)

\* the NAL input Await: the child prints, the reader thread queues, the caller
\* waits in nal_await
NextAwait ==
    \/ \E e \in Expectations : NalAwaitCall(e)
    \/ NalAwaitFetch
    \/ ReaderReadLine
    \/ \E line \in {LineDerived, LineTestFailed, LineBadExe} : ChildPrint(line)

SpecAwait == Init /\ [][NextAwait]_vars

\* the functions of term_equal.rs that work on one term, called on a term in
\* any order, each on what the calls before left of the term
NextFormalize ==
    \/ RenameVariablesInTerm(1)
    \/ SortCommunicativeTerms(1)
    \/ FormalizeTerm(1)

InitFormalize == Launched /\ InitTm(TermsOfOne, 1) /\ ex = NoEx

SpecFormalize == InitFormalize /\ [][NextFormalize]_vars

\* semantical_equal_mut, called on the pairs of three terms in any order
NextTermEqual == \E p \in SlotPairs(3) : SemanticalEqualMut(p[1], p[2])

InitTermEqual == Launched /\ InitTm(Terms, 3) /\ ex = NoEx

SpecTermEqual == InitTermEqual /\ [][NextTermEqual]_vars

\* term_comparator, called on the ordered pairs of three terms in any order
NextCompare == \E p \in SlotPairs(3) : TermComparator(p[1], p[2])

InitCompare == Launched /\ InitTm(CompareTerms, 3) /\ ex = NoEx

SpecCompare == InitCompare /\ [][NextCompare]_vars

\* the NAL input ExpectCycle with every step the parser accepts (`usize`: 0
\* too): the child prints, the reader thread queues, the caller executes
\* ExpectCycle
NextCycle ==
    \/ \E max_cycles \in 0..MaxCycles, step_cycles \in 0..MaxStep, e \in Expectations :
           NalExpectCycleCall(max_cycles, step_cycles, e)
    \/ NalExpectCycleStep
    \/ ReaderReadLine
    \/ \E line \in {LineDerived, LineBadExe} : ChildPrint(line)

SpecCycle == Init /\ [][NextCycle]_vars

\* Scheduling: the caller goes on after the sleep of an iteration, and the
\* reader thread reads what the child printed.  Nothing obliges the child to
\* print.
FairSpecCycle == SpecCycle /\ WF_vars(NalExpectCycleStep) /\ WF_vars(ReaderReadLine)

\* the NAL input Await on a runtime that can end: as NextAwait, and the child
\* exits, the reader thread meets the end of its output, the caller terminates
\* the runtime (before an Await, or after one returned)
NextAwaitExit ==
    \/ NextAwait
    \/ ChildExit
    \/ ReaderEof
    \/ Terminate
    \/ WriterRecv

\* the results a Terminate input carries
Results == { StdOk, StdErr("failed") }

\* the NAL input Terminate next to commands: the caller gives commands and
\* executes Terminate, the writer thread writes, the child reads
NextTerminate ==
    \/ \E cmd \in Cmds : InputCmd(cmd)
    \/ \E if_not_user \in BOOLEAN, enabled_user_input \in BOOLEAN, result \in Results :
           NalTerminate(if_not_user, enabled_user_input, result)
    \/ KillPutSentinel
    \/ KillJoinWriter
    \/ KillProcessAndReturn
    \/ WriterRecv
    \/ WriterWrite
    \/ ChildReadStdin

SpecTerminate == Init /\ [][NextTerminate]_vars

\* is_expected_float, called on two components and a precision
NextFloat == IsExpectedFloat

InitFloat == Launched /\ tm = NoTm /\ InitEx("is_expected_float", Floats, Floats, Precisions)

SpecFloat == InitFloat /\ [][NextFloat]_vars

\* is_expected_narsese_lexical, called on two Narsese values and a precision
NextNarsese == IsExpectedNarseseLexical

InitNarsese ==
    /\ Launched /\ tm = NoTm
    /\ InitEx("is_expected_narsese_lexical", NarseseValues, NarseseValues,
              { Float(0), Float(1), INFINITY })

SpecNarsese == InitNarsese /\ [][NextNarsese]_vars

\* OutputExpectation::matches, called on an expectation, an output and a
\* precision
NextMatch == Matches

InitMatch ==
    /\ Launched /\ tm = NoTm
    /\ InitEx("matches", OutputExpectations, NavmOutputs, { Float(0), INFINITY })

SpecMatch == InitMatch /\ [][NextMatch]_vars

\* a CommandVm is configured and launched, and the caller gives commands to
\* the runtime it got
NextLaunch ==
    \/ \E translator \in TranslatorKinds : VmInputTranslator(translator)
    \/ \E translator \in TranslatorKinds : VmOutputTranslator(translator)
    \/ \E i \in TranslatorKinds, o \in TranslatorKinds : VmTranslators(Translators(i, o))
    \/ \E spawned \in BOOLEAN : Launch(spawned)
    \/ \E cmd \in Cmds : InputCmd(cmd)
    \/ WriterRecv
    \/ WriterWrite
    \/ ChildReadStdin

\* CommandVm::from(io_process): nothing launched, no translator given
InitLaunch ==
    /\ status = NotLaunched
    /\ termination_signal = FALSE
    /\ child_in = << >>
    /\ child_out = << >>
    /\ thread_write_in = FALSE
    /\ thread_read_out = FALSE
    /\ wpc = "done"
    /\ wline = ""
    /\ rpc = "done"
    /\ alive = FALSE
    /\ stdin_pipe = 0
    /\ stdout_pipe = << >>
    /\ NEXT_OPERATOR_ID = 0
    /\ inner = << >>
    /\ output_handlers = << >>
    /\ handle_result = NoResult
    /\ cpc = "unlaunched"
    /\ ret = Ret("", NoCmd, "", "", NoOutput)
    /\ nCalls = 0
    /\ nTerminate = 0
    /\ nal = NoNal
    /\ accepted = << >>
    /\ stdin_written = << >>
    /\ produced = << >>
    /\ offered = << >>
    /\ killed = FALSE
    /\ drained = FALSE
    /\ tm = NoTm
    /\ ex = NoEx
    /\ vm = CommandVm(None, None, FALSE, NoRuntime)
    /\ cli = NoCli

SpecLaunch == InitLaunch /\ [][NextLaunch]_vars

\* the input a thread executes under both locks (input_nal_to_vm, put_nal) is
\* a Terminate: the thread is the caller of terminate()
InputTerminate ==
    /\ \E t \in Threads : cli.pc[t] = "both"
    /\ Terminate

\* the threads of the CLI and the two locks: the main thread runs the prelude
\* and starts the other threads, the threads take and drop the locks, and an
\* input executed under the locks can terminate the runtime
NextLocks ==
    \/ PreludeLockRuntime
    \/ PreludeLockCache
    \/ PreludeReturn
    \/ ManageCheckStatus
    \/ ManageSpawn
    \/ ReadLockRuntime
    \/ \E more \in BOOLEAN : ReadFetch(more)
    \/ ReadLockCache
    \/ ReadPut
    \/ UserReadLine
    \/ UserLockRuntime
    \/ UserLockCache
    \/ UserInputDone
    \/ WsMessage
    \/ WsLockRuntime
    \/ WsLockCache
    \/ WsReturn
    \/ InputTerminate
    \/ WriterRecv

\* RuntimeManager::new and the beginning of manage: the runtime is launched,
\* the output cache is empty and has no handler, spawn_read_output has
\* started its thread and the main thread is about to call prelude_nal
InitLocks ==
    /\ status = Running
    /\ termination_signal = FALSE
    /\ child_in = << >>
    /\ child_out = << >>
    /\ thread_write_in = TRUE
    /\ thread_read_out = TRUE
    /\ wpc = "recv"
    /\ wline = ""
    /\ rpc = "read"
    /\ alive = TRUE
    /\ stdin_pipe = 0
    /\ stdout_pipe = << >>
    /\ NEXT_OPERATOR_ID = 0
    /\ inner = << >>
    /\ output_handlers = << >>
    /\ handle_result = NoResult
    /\ cpc = "idle"
    /\ ret = Ret("launch", NoCmd, "Ok", "", NoOutput)
    /\ nCalls = 0
    /\ nTerminate = 0
    /\ nal = NoNal
    /\ accepted = << >>
    /\ stdin_written = << >>
    /\ produced = << >>
    /\ offered = << >>
    /\ killed = FALSE
    /\ drained = FALSE
    /\ tm = NoTm
    /\ ex = NoEx
    /\ vm = CommandVm(Some("ona"), Some("ona"), TRUE, Translators("ona", "ona"))
    /\ \E prelude_nal \in BOOLEAN, user_input \in BOOLEAN, websocket \in BOOLEAN,
          strict_mode \in BOOLEAN :
            cli = RuntimeManager(
                      [t \in Threads |->
                          CASE t = "main" -> "prelude"
                            [] t = "read_output" -> "lock_runtime"
                            [] OTHER -> "none"],
                      RuntimeConfig(prelude_nal, user_input, websocket, strict_mode))

SpecLocks == InitLocks /\ [][NextLocks]_vars

Next ==
    NextLaunch \/ NextLocks \/ NextIn \/ NextOut \/ NextCache \/ NextNal \/ NextCycle \/ NextAwaitExit \/ NextTerminate
        \/ NextFormalize \/ NextTermEqual \/ NextCompare \/ NextFloat \/ NextNarsese \/ NextMatch

Spec == Init /\ [][Next]_vars

SpecIn == Init /\ [][NextIn]_vars

SpecOut == Init /\ [][NextOut]_vars

SpecNal == Init /\ [][NextNal]_vars

\* OutputCache::default(): as Init, with no handler in the list
InitCache ==
    /\ status = Running
    /\ termination_signal = FALSE
    /\ child_in = << >>
    /\ child_out = << >>
    /\ thread_write_in = TRUE
    /\ thread_read_out = TRUE
    /\ wpc = "recv"
    /\ wline = ""
    /\ rpc = "read"
    /\ alive = TRUE
    /\ stdin_pipe = 0
    /\ stdout_pipe = << >>
    /\ NEXT_OPERATOR_ID = 0
    /\ inner = << >>
    /\ output_handlers = << >>
    /\ handle_result = NoResult
    /\ cpc = "idle"
    /\ ret = Ret("launch", NoCmd, "Ok", "", NoOutput)
    /\ nCalls = 0
    /\ nTerminate = 0
    /\ nal = NoNal
    /\ accepted = << >>
    /\ stdin_written = << >>
    /\ produced = << >>
    /\ offered = << >>
    /\ killed = FALSE
    /\ drained = FALSE
    /\ tm = NoTm
    /\ ex = NoEx
    /\ vm = CommandVm(Some("ona"), Some("ona"), TRUE, Translators("ona", "ona"))
    /\ cli = NoCli

SpecCache == InitCache /\ [][NextCache]_vars

\* Scheduling: a thread that can take its next step takes it.  The writer and
\* the reader are OS threads; the caller inside kill() or fetch_output() goes
\* on as soon as it is not waiting.  Nothing obliges the caller to start a
\* call, nor the child to print, read or exit.
Fairness ==
    /\ WF_vars(WriterRecv)
    /\ WF_vars(WriterWrite)
    /\ WF_vars(ReaderReadLine)
    /\ WF_vars(ReaderEof)
    /\ WF_vars(KillPutSentinel)
    /\ WF_vars(KillJoinWriter)
    /\ WF_vars(KillProcessAndReturn)
    /\ WF_vars(FetchOutputReturn)

\* both halves at once, with one kind of command and one kind of line: the
\* caller gives commands and fetches, the child reads and prints
NextDuplex ==
    \/ InputCmd(Cmd("NSE", "<A --> B>.", 0))
    \/ TryFetchOutput
    \/ Terminate
    \/ WriterRecv
    \/ WriterWrite
    \/ ReaderReadLine
    \/ ReaderEof
    \/ ChildPrint(LineDerived)
    \/ ChildReadStdin
    \/ ChildExit

FairSpecDuplex == Init /\ [][NextDuplex]_vars /\ Fairness

\* Scheduling: the threads take the steps they can take; the caller inside
\* kill() goes on as soon as it is not waiting, and inside nal_await whenever
\* fetch_output returns.  Nothing obliges the child to print or to exit.
FairSpecAwaitExit ==
    /\ Init
    /\ [][NextAwaitExit]_vars
    /\ Fairness
    /\ WF_vars(NalAwaitFetch)

FairSpecIn == SpecIn /\ Fairness

FairSpecOut == SpecOut /\ Fairness

(* ============================== claims ================================ *)

IsPrefix(a, b) == Len(a) <= Len(b) /\ SubSeq(b, 1, Len(a)) = a

Range(q) == { q[i] : i \in 1..Len(q) }

(* ------------------------------- C1 ----------------------------------- *)

\* the lines the accepted input_cmd calls owe the child: for every call whose
\* translation s is not empty, s followed by one newline, in call order
RECURSIVE LinesOwed(_)
LinesOwed(calls) ==
    IF calls = << >> THEN << >>
    ELSE (IF Head(calls).s = "" THEN << >> ELSE << Head(calls).s \o "\n" >>)
            \o LinesOwed(Tail(calls))

\* the lines on their way to the child's stdin: the one the writer holds and
\* those in the outbound channel (the bare newline is the sentinel of kill())
LinesPending ==
    (IF wpc = "write" THEN << wline >> ELSE << >>)
        \o SelectSeq(child_in, LAMBDA l : l # "\n")

C2_AsClaimed ==
    /\ Len(offered) <= Len(produced)
    /\ \A i \in 1..Len(offered) :
          /\ output_translate(produced[i]).ok
          /\ offered[i] = output_translate(produced[i]).out

(* ------------------------------- C3 ----------------------------------- *)

FetchOps == {"fetch_output", "try_fetch_output"}

\* C3 as claimed: once terminate() has returned the status is Terminated and no
\* fetch_output or try_fetch_output call delivers an Output
C3_AsClaimed ==
    killed =>
        /\ status.tag = "Terminated"
        /\ ~(ret.op \in FetchOps /\ ret.kind = "Some")

\* C3, amended: once terminate() has returned, status() is a Terminated variant
\* in every later state, whatever is called afterwards; lines the child printed
\* before it was killed can still be delivered by fetch_output and
\* try_fetch_output.
C3_TerminatedAfterTerminate ==
    killed => status.tag = "Terminated"

\* after terminate() returned, try_fetch_output delivered an OUT output and
\* the status is the one terminate() set
C3_Witness ==
    /\ killed
    /\ ret.op = "try_fetch_output"
    /\ ret.kind = "Some"
    /\ ret.out.type = "OUT"
    /\ status = TerminatedOk

(* ------------------------------- C4 ----------------------------------- *)

\* C4 as claimed: when fetch_output or try_fetch_output has returned an Output
\* of the TERMINATED variant, the status is Terminated
C4_AsClaimed ==
    (ret.op \in FetchOps /\ ret.kind = "Some" /\ ret.out.type = "TERMINATED")
        => status.tag = "Terminated"

(* ------------------------------- C5 ----------------------------------- *)

\* C5 as claimed: a Terminated status is final, neither left nor replaced
C5_AsClaimed ==
    [][status.tag = "Terminated" => status' = status]_vars

\* C5, amended: a Terminated status never goes back to Running, and the status
\* changes in two ways only: terminate() sets Terminated(Ok), and a
\* try_fetch_output that returns a TERMINATED output sets Terminated(Err) with
\* that output's description.  Both overwrite a Terminated status that is
\* already there, so the Ok/Err result can be replaced.
C5_TerminatedIsAbsorbing ==
    [][ /\ status.tag = "Terminated" => status'.tag = "Terminated"
        /\ status' # status =>
              \/ cpc = "kill_proc" /\ status' = TerminatedOk
              \/ /\ ret'.op = "try_fetch_output"
                 /\ ret'.kind = "Some"
                 /\ ret'.out.type = "TERMINATED"
                 /\ status' = TerminatedErr(ret'.out.content) ]_vars

\* terminate() has returned, and the Terminated(Ok) it set has since been
\* replaced by the Terminated(Err) of a TERMINATED output
C5_Witness ==
    /\ killed
    /\ status.tag = "Terminated"
    /\ status.result = "Err"

(* ------------------------------- C6 ----------------------------------- *)

\* C6: a kill() that starts while the writer thread waits on the empty
\* outbound channel (and the child has printed nothing) returns: from the
\* moment the signal is set, the sentinel wakes the writer, the writer ends
\* without writing, the join completes and kill() returns.
C6_KillReturnsWhenIdle ==
    (cpc = "kill_put" /\ wpc = "recv" /\ child_in = << >> /\ produced = << >>)
        ~> (cpc = "idle" /\ killed /\ wpc = "done" /\ "\n" \notin Range(stdin_written))

\* kill() has returned although no command was ever given and nothing was
\* ever written or printed
C6_Witness ==
    /\ killed
    /\ cpc = "idle"
    /\ nCalls = 0
    /\ produced = << >>
    /\ stdin_written = << >>
    /\ wpc = "done"

(* ------------------------------- C7 ----------------------------------- *)

\* C7 as claimed: after kill() has returned, no input_cmd call reports success
C7_AsClaimed ==
    (killed /\ ret.op = "input_cmd") => ret.kind = "Err"

\* C7, amended: after kill() has returned the writer thread has ended and the
\* outbound channel is gone, so nothing more is enqueued or written; an
\* input_cmd call whose command translates to a non-empty text returns the
\* channel's SendError, one whose command the translator rejects returns the
\* translator's error, and one whose command translates to the empty text
\* returns Ok(()).
C7_InputAfterKill ==
    killed =>
        /\ wpc = "done"
        /\ child_in = << >>
        /\ ret.op = "input_cmd" =>
              LET t == input_translate(ret.cmd, 0)
              IN  /\ (t.ok /\ t.s # "") => (ret.kind = "Err" /\ ret.err = "SendError")
                  /\ ~t.ok => (ret.kind = "Err" /\ ret.err = "UnsupportedInput")
                  /\ (t.ok /\ t.s = "") => ret.kind = "Ok"

\* after kill() returned, input_cmd(NSE ...) returned the SendError
C7_Witness ==
    /\ killed
    /\ ret.op = "input_cmd"
    /\ ret.cmd.tag = "NSE"
    /\ ret.err = "SendError"

(* ------------------------------- C8 ----------------------------------- *)

\* C8 as claimed: once a try_fetch_output after kill() has returned None, no
\* later try_fetch_output returns a line
C8_AsClaimed ==
    drained => ~(ret.op = "try_fetch_output" /\ ret.kind \in {"Some", "Err"})

(* ------------------------------- C9 ----------------------------------- *)

\* C9: a blocking fetch_output that waits after kill() has returned, with the
\* inbound channel empty and nothing left in the child's stdout pipe, returns,
\* and what it returns is the channel's RecvError.
C9_FetchFailsWhenTornDown ==
    (cpc = "fetch" /\ killed /\ child_out = << >> /\ stdout_pipe = << >>)
        ~> (cpc = "idle" /\ ret.op = "fetch_output" /\ ret.err = "RecvError")

\* fetch_output returned the RecvError after kill() had returned
C9_Witness ==
    /\ killed
    /\ cpc = "idle"
    /\ rpc = "done"
    /\ ret.op = "fetch_output"
    /\ ret.err = "RecvError"

(* ------------------------------- C10 ---------------------------------- *)

\* lines the reader thread has taken out of the child's stdout pipe
LinesRead == Len(produced) - Len(stdout_pipe)

\* C10: the writer thread and the reader thread go on independently.  Whether
\* the writer can take its next step depends on the outbound channel and the
\* stdin pipe only, never on how many lines are queued unfetched; whether the
\* reader can take a line depends on the stdout pipe only, never on the writer.
\* So a line the writer holds is written as soon as the stdin pipe has room,
\* and every line the child prints is taken by the reader, whatever the other
\* side is doing.
C10_IndependentProgress ==
    /\ []((wpc = "recv" /\ child_in # << >>) => ENABLED WriterRecv)
    /\ []((wpc = "write" /\ (~alive \/ stdin_pipe < PipeCap)) => ENABLED WriterWrite)
    /\ []((rpc = "read" /\ stdout_pipe # << >>) => ENABLED ReaderReadLine)
    /\ (wpc = "write" /\ stdin_pipe < PipeCap) ~> (wpc # "write")
    /\ \A n \in 1..MaxLines : (Len(produced) >= n) ~> (LinesRead >= n)

\* the child's whole burst is queued and nothing was fetched, a command given
\* after the burst was written to the child's stdin, and the writer now waits
\* on the full stdin pipe
C10_Witness ==
    /\ Len(child_out) = MaxLines
    /\ offered = << >>
    /\ Len(stdin_written) = PipeCap
    /\ wpc = "write"
    /\ alive
    /\ stdin_pipe = PipeCap
    /\ rpc = "read"
    /\ stdout_pipe = << >>

(* ------------------------------- C11 ---------------------------------- *)

\* C11: input_cmd never waits.  A caller that is not inside another call can
\* make the call with any command, whatever the writer thread, the outbound
\* channel, the stdin pipe and the child are doing, and the call is over in the
\* step that makes it: the caller is not left at a waiting position.
C11_InputCmdNeverWaits ==
    /\ []((cpc = "idle" /\ nCalls < MaxCalls) => \A cmd \in Cmds : ENABLED InputCmd(cmd))
    /\ [][nCalls' # nCalls => (cpc' = "idle" /\ ret'.op = "input_cmd")]_vars

\* input_cmd has returned Ok although the child reads nothing: the stdin pipe
\* is full, the writer thread waits in write_all with the line before, and the
\* line of this call sits in the outbound channel
C11_Witness ==
    /\ alive
    /\ stdin_pipe = PipeCap
    /\ wpc = "write"
    /\ cpc = "idle"
    /\ ret.op = "input_cmd"
    /\ ret.kind = "Ok"
    /\ child_in = << put_line(input_translate(ret.cmd, 0).s) >>
    /\ ret.cmd.tag = "NSE"

(* ------------------------------- C12 ---------------------------------- *)

C14_KillIdempotent ==
    /\ [][(killed /\ Terminate) =>
             /\ termination_signal' /\ ~thread_write_in' /\ ~thread_read_out' /\ ~alive'
             /\ UNCHANGED << thread_write_in, thread_read_out, alive, wpc, child_in,
                             child_out >>
             /\ cpc # "idle" => UNCHANGED termination_signal]_vars
    /\ (killed /\ cpc = "kill_put")
          ~> (cpc = "idle" /\ ret.op = "terminate" /\ ret.kind = "Ok")

\* the second terminate() has returned, with a line still in the inbound channel
C14_Witness ==
    /\ nTerminate = 2
    /\ killed
    /\ cpc = "idle"
    /\ ret.op = "terminate"
    /\ ret.kind = "Ok"
    /\ child_out # << >>
    /\ termination_signal /\ ~thread_write_in /\ ~thread_read_out /\ ~alive

(* ------------------------------- C15 ---------------------------------- *)

\* C15: an input_cmd call whose command the input translator maps to the empty
\* text returns Ok(()) and changes nothing on the way to the child: not the
\* outbound channel, not the writer thread, not the stdin pipe.  A call whose
\* command is mapped to a non-empty text s appends exactly s followed by one
\* newline to the outbound channel and returns Ok(()) (while the writer thread,
\* which holds the receiving end, runs).  So no empty line is ever written.
C15_EmptyTranslationSuppressed ==
    /\ [][\A cmd \in Cmds : InputCmd(cmd) =>
             LET t == input_translate(cmd, NEXT_OPERATOR_ID)
             IN  /\ (t.ok /\ t.s = "") =>
                        /\ ret' = Ret("input_cmd", cmd, "Ok", "", NoOutput)
                        /\ UNCHANGED << child_in, writerVars, stdin_pipe, stdin_written, toolVars >>
                 /\ (t.ok /\ t.s # "" /\ wpc # "done") =>
                        /\ ret' = Ret("input_cmd", cmd, "Ok", "", NoOutput)
                        /\ child_in' = Append(child_in, t.s \o "\n")
                        /\ UNCHANGED << writerVars, stdin_pipe, stdin_written, toolVars >>]_vars
    /\ [](\A i \in 1..Len(stdin_written) : stdin_written[i] \notin {"", "\n"})

\* REG of a built-in operator and REM were accepted and left no trace; the NSE
\* after them is the only line in the outbound channel
C15_Witness ==
    /\ Len(accepted) = 3
    /\ accepted[1] = [cmd |-> Cmd("REG", "left", 0), s |-> ""]
    /\ accepted[2] = [cmd |-> Cmd("REM", "note", 0), s |-> ""]
    /\ accepted[3].cmd.tag = "NSE"
    /\ child_in = << "<A --> B>.\n" >>
    /\ wpc = "recv"
    /\ stdin_written = << >>

(* ------------------------------- C16 ---------------------------------- *)

\* the item handler k is given when every handler before it returned Some:
\* the item itself for the first one, the return value of handler k - 1 after
\* that (position Len(handlers) + 1 stands for what comes out at the end)
Fed(handlers, item) ==
    LET fed[k \in 1..(Len(handlers) + 1)] ==
            IF k = 1 THEN item ELSE ApplyHandler(handlers[k - 1], fed[k - 1]).item
    IN  fed

\* the handlers that return None on what they are given
Refusing(handlers, item) ==
    { k \in 1..Len(handlers) : ~ApplyHandler(handlers[k], Fed(handlers, item)[k]).some }

\* what handle() has to return
HandleAsSpecified(handlers, item) ==
    LET r == handle(handlers, item)
        none == Refusing(handlers, item)
    IN  IF none = {}
        THEN /\ r.passed
             /\ r.item = Fed(handlers, item)[Len(handlers) + 1]
             /\ r.invoked = Len(handlers)
        ELSE LET first == CHOOSE k \in none : \A j \in none : k <= j
             IN  /\ ~r.passed
                 /\ r.index = first - 1
                 /\ r.invoked = first

\* C16: handle(item) gives the handlers, in list order, each the value the one
\* before returned; with handler i (counted from 0) the first to return None it
\* returns Consumed(i) and has called no handler after i; with none returning
\* None it returns Passed(v), v the last handler's return value, and the item
\* itself for the empty list.  This holds for every list the cache can hold and
\* every output, and for the call put() has just made.
C16_HandleThreadsItem ==
    /\ \A item \in PutOutputs : HandleAsSpecified(output_handlers, item)
    /\ output_handlers = << >> =>
          \A item \in PutOutputs : handle(output_handlers, item).item = item
    /\ offered # << >> =>
          /\ handle_result.passed => handle_result.item = inner[Len(inner)]
          /\ handle_result.invoked <= Len(output_handlers)

\* put(OUT) on a list of three handlers: the first passes the output on, the
\* second turns it into an ANSWER, the third consumes that: Consumed(2)
C16_Witness ==
    /\ output_handlers = << "ws_broadcast", "retype_out", "intercept_answer" >>
    /\ offered = << Output("OUT", "o") >>
    /\ handle_result = [passed |-> FALSE, item |-> NoOutput, index |-> 2, invoked |-> 3]
    /\ inner = << >>

(* ------------------------------- C17 ---------------------------------- *)

\* C17: every put(output) offers the output to the handler chain; when no
\* handler of the chain refuses it, the output is appended to the cached
\* sequence in the form the chain gave it, and when a handler consumes it the
\* cached sequence stays as it is.  No step of any kind removes or reorders
\* what is cached, and the cache never holds more outputs than were offered.
C17_CacheHoldsPassedOutputs ==
    /\ [][\A output \in PutOutputs : Put(output) =>
             /\ offered' = Append(offered, output)
             /\ IF Refusing(output_handlers, output) = {}
                THEN inner' = Append(inner,
                         Fed(output_handlers, output)[Len(output_handlers) + 1])
                ELSE inner' = inner]_vars
    /\ [][IsPrefix(inner, inner')]_vars
    /\ [](Len(inner) <= Len(offered))

\* three outputs were put on the chain <<intercept_answer, retype_out>>: the
\* ANSWER was consumed, the OUT is cached as the ANSWER the chain made of it,
\* the IN is cached as it was
C17_Witness ==
    /\ output_handlers = << "intercept_answer", "retype_out" >>
    /\ offered = << Output("ANSWER", "a"), Output("OUT", "o"), Output("IN", "i") >>
    /\ inner = << Output("ANSWER", "o"), Output("IN", "i") >>

(* ------------------------------- C18 ---------------------------------- *)

\* C18 as claimed: when ExpectContains(e) has returned, it returned success if
\* and only if an output in the cache matches e, and what it returned
\* otherwise is the error ExpectedNotExists carrying e
C18_AsClaimed ==
    ret.op = "nal_expect_contains" =>
        /\ ret.kind = "Ok" <=> Found(nal.e, inner)
        /\ ret.kind # "Ok" => ret.err = ExpectedNotExists(nal.e)

(* ------------------------------- C19 ---------------------------------- *)

\* ceil(a / b) for b > 0
CeilDiv(a, b) == (a + b - 1) \div b

\* C19: ExpectCycle(max, step, e) with step > 0 begins at most ceil(max / step)
\* iterations, each issuing CYC step (so step * iterations cycles are issued);
\* it begins another iteration only after a scan that found no match, returns
\* Ok from the first scan that finds one, and returns ExpectedNotExists(e)
\* only after all ceil(max / step) iterations, none of which found a match
\* (with max = 0 there is no iteration and no scan).
C19_ExpectCycleBounded ==
    /\ [](nal.op = "ExpectCycle" =>
             /\ nal.iters <= CeilDiv(nal.max, nal.step)
             /\ nal.cycles = nal.iters * nal.step)
    /\ [][nal'.iters = nal.iters + 1 =>
             child_in' = Append(child_in, ToString(nal'.step) \o "\n")]_vars
    /\ []((cpc = "idle" /\ ret.op = "nal_expect_cycle") =>
             /\ ret.kind = "Ok" => (nal.iters >= 1 /\ Found(nal.e, inner))
             /\ ret.err = ExpectedNotExists(nal.e) =>
                   /\ nal.iters = CeilDiv(nal.max, nal.step)
                   /\ nal.iters >= 1 => ~Found(nal.e, inner))
    /\ [][(cpc = "cycle_sleep" /\ nal'.iters = nal.iters + 1) =>
             ~Found(nal.e, inner')]_vars
    /\ [][(cpc = "cycle_sleep" /\ cpc' = "idle" /\ ret'.err # "ParseError") =>
             (ret'.kind = "Ok" <=> Found(nal.e, inner'))]_vars

\* ExpectCycle(3, 1, OUT) returned Ok from its second iteration: the first scan
\* found nothing, the second found the OUT output
C19_Witness ==
    /\ cpc = "idle"
    /\ ret.op = "nal_expect_cycle"
    /\ ret.kind = "Ok"
    /\ nal.max = 3 /\ nal.step = 1
    /\ nal.iters = 2
    /\ nal.cycles = 2
    /\ nal.e = Expect("OUT")

(* ------------------------------- C20 ---------------------------------- *)

\* the INFO outputs in a sequence of outputs
Infos(outputs) == SelectSeq(outputs, LAMBDA o : o.type = "INFO")

\* an ExpectCycle returns Ok in this step
ExpectCycleSucceeds == cpc = "cycle_sleep" /\ cpc' = "idle" /\ ret'.kind = "Ok"

\* C20: the step in which an ExpectCycle returns Ok puts one INFO output into
\* the cache, as its last element, with the message "expect-cycle(<cycles>):
\* <expectation>", <cycles> being the cycles issued by the iterations so far;
\* no other step, a failing return of ExpectCycle included, adds an INFO
\* output, and none is ever removed.
C20_ExpectCycleInfoOutput ==
    /\ [][ExpectCycleSucceeds =>
             /\ Len(Infos(inner')) = Len(Infos(inner)) + 1
             /\ inner'[Len(inner')] =
                   Output("INFO", "expect-cycle(" \o ToString(nal.iters * nal.step)
                                      \o "): " \o ExpectationText(nal.e))
             /\ offered'[Len(offered')] = inner'[Len(inner')]]_vars
    /\ [][~ExpectCycleSucceeds => Infos(inner') = Infos(inner)]_vars

\* ExpectCycle(3, 1, OUT) matched in its third iteration: the cache ends with
\* the OUT output and the INFO output that reports 3 cycles
C20_Witness ==
    /\ cpc = "idle"
    /\ ret.op = "nal_expect_cycle"
    /\ ret.kind = "Ok"
    /\ nal.iters = 3
    /\ Len(inner) = 2
    /\ inner[1].type = "OUT"
    /\ inner[2] = Output("INFO", "expect-cycle(3): OutputExpectation { OUT * * }")

(* ------------------------------- C21 ---------------------------------- *)

\* C21 as claimed: ExpectCycle(0, step, e) does what ExpectContains(e) does in
\* the same state: no CYC command is issued and, where the pending lines all
\* translate, they are drained into the cache and the call returns Ok if an
\* output then in the cache matches e and ExpectedNotExists(e) if none does
C21_AsClaimed ==
    [][(cpc = "idle" /\ nal'.n = nal.n + 1 /\ nal'.op = "ExpectCycle" /\ nal'.max = 0) =>
          LET d == DrainAll(child_out, status, Cache)
          IN  /\ child_in' = child_in
              /\ d.err = "" =>
                    /\ child_out' = d.child_out
                    /\ inner' = d.cache.inner
                    /\ cpc' = "idle"
                    /\ ret'.kind = "Ok" <=> Found(nal'.e, d.cache.inner)
                    /\ ret'.kind # "Ok" => ret'.err = ExpectedNotExists(nal'.e)]_vars

(* ------------------------------- C22 ---------------------------------- *)

\* the outputs a sequence of lines translates to, the untranslatable left out
RECURSIVE OutputsOf(_)
OutputsOf(lines) ==
    IF lines = << >> THEN << >>
    ELSE LET t == output_translate(Head(lines))
         IN  (IF t.ok THEN << t.out >> ELSE << >>) \o OutputsOf(Tail(lines))

\* the lines the caller has taken from the inbound channel
LinesFetched ==
    SubSeq(produced, 1, Len(produced) - Len(stdout_pipe) - Len(child_out))

\* Await takes a line from the inbound channel in this step
AwaitReads == cpc = "await" /\ child_out # << >> /\ child_out' = Tail(child_out)

\* C22: Await(e) returns only in a step in which it reads an output that
\* matches e, and what it returns then is Ok; a step in which it reads an
\* output that does not match, or a line that gives no output, leaves it
\* waiting; every output it reads, matching or not, is appended to the cache in
\* that step, so that the cache holds the outputs read so far in read order.
C22_AwaitReturnsOnMatch ==
    /\ [][AwaitReads =>
             LET t == output_translate(Head(child_out))
             IN  /\ inner' = IF t.ok THEN Append(inner, t.out) ELSE inner
                 /\ cpc' = IF t.ok /\ matches(nal.e, t.out) THEN "idle" ELSE "await"]_vars
    /\ [][(cpc = "await" /\ cpc' # "await") =>
             /\ AwaitReads
             /\ ret' = Ret("nal_await", NoCmd, "Ok", "", NoOutput)]_vars
    /\ [][(cpc = "await" /\ ~AwaitReads) => inner' = inner]_vars
    /\ [](inner = OutputsOf(LinesFetched))
    /\ []((cpc = "idle" /\ ret.op = "nal_await") =>
             /\ ret.kind = "Ok"
             /\ inner # << >>
             /\ matches(nal.e, inner[Len(inner)]))

\* Await(OUT) has returned after two reads: the TERMINATED output that did not
\* match and the OUT output that did are both in the cache, in read order
C22_Witness ==
    /\ cpc = "idle"
    /\ ret.op = "nal_await"
    /\ nal.e = Expect("OUT")
    /\ Len(inner) = 2
    /\ inner[1].type = "TERMINATED"
    /\ inner[2].type = "OUT"

(* ------------------------------- C23 ---------------------------------- *)

\* a Terminate input begins in this step
TerminateBegins == nal'.n = nal.n + 1 /\ nal'.op = "Terminate"

\* Terminate(if-no-user) with user input enabled changes nothing of the runtime
\* and returns Ok at once
TerminateSkipped ==
    [][(TerminateBegins /\ nal'.if_not_user /\ nal'.enabled_user_input) =>
          /\ UNCHANGED << status, channelVars, writerVars, rpc, childVars,
                          nTerminate, killed >>
          /\ cpc' = "idle"
          /\ ret' = Ret("nal_terminate", NoCmd, "Ok", "", NoOutput)]_vars

\* a Terminate(if-no-user) has returned that was executed with user input disabled
TerminatedWithoutUser ==
    /\ cpc = "idle"
    /\ ret.op = "nal_terminate"
    /\ nal.if_not_user
    /\ ~nal.enabled_user_input

\* C23 as claimed: Terminate(if-no-user) is a no-op returning Ok when user
\* input is enabled; when it is disabled, the runtime is shut down (the status
\* is Terminated) and Ok is returned
C23_AsClaimed ==
    /\ TerminateSkipped
    /\ [](TerminatedWithoutUser => (status.tag = "Terminated" /\ ret.kind = "Ok"))

\* C23, amended: Terminate(if-no-user) is a no-op returning Ok when user input
\* is enabled (the status, the termination signal, the threads and the child
\* are left as they were, terminate() is not entered).  When user input is
\* disabled it enters terminate(), and when it returns the runtime is shut down
\* (status Terminated, child killed) and what is returned is the result the
\* input carries: Ok without a message, Err(message) with one.
C23_TerminateIfNoUser ==
    /\ TerminateSkipped
    /\ [][(TerminateBegins /\ nal'.if_not_user /\ ~nal'.enabled_user_input) =>
             /\ termination_signal'
             /\ nTerminate' = nTerminate + 1
             /\ cpc' = "kill_put"]_vars
    /\ [](TerminatedWithoutUser =>
             /\ status = TerminatedOk
             /\ killed
             /\ ~alive
             /\ ret.kind = IF nal.result.ok THEN "Ok" ELSE "Err"
             /\ ret.err = nal.result.e)

\* Terminate(if-no-user) carrying the message "failed" was executed with user
\* input disabled and has returned: the runtime is shut down, Err("failed") is
\* what it returned
C23_Witness ==
    /\ TerminatedWithoutUser
    /\ nal.result = StdErr("failed")
    /\ ret.kind = "Err"
    /\ ret.err = "failed"
    /\ status = TerminatedOk
    /\ ~alive

(* ------------------------------- C24 ---------------------------------- *)

\* formalize_term has just returned or panicked on the term of slot 1
Formalized == tm.last.op = "formalize_term"

\* C24 as claimed: formalize_term never panics, whatever the term, and
\* formalize_term on a term it returned returns that term unchanged
C24_AsClaimed ==
    /\ ~tm.panic
    /\ Formalized => formalize_term(tm.terms[1]) = [panic |-> FALSE, term |-> tm.terms[1]]

(* ------------------------------- C25 ---------------------------------- *)

\* what semantical_equal_mut returned for the slots i and j: "true", "false",
\* or "?" where it was not called or did not return
Equal(i, j) == tm.equal[<< i, j >>]

\* the calls of semantical_equal_mut that returned are those of an
\* equivalence relation on the terms the slots started with
EqualIsEquivalence ==
    /\ \A p \in SlotPairs(3) :
          tm.orig[p[1]] = tm.orig[p[2]] /\ Equal(p[1], p[2]) # "?"
              => Equal(p[1], p[2]) = "true"
    /\ \A p \in SlotPairs(3) :
          Equal(p[1], p[2]) # "?" /\ Equal(p[2], p[1]) # "?"
              => Equal(p[1], p[2]) = Equal(p[2], p[1])
    /\ \A i, j, k \in 1..3 :
          /\ i # j /\ j # k /\ i # k
          /\ Equal(i, j) = "true" /\ Equal(j, k) = "true" /\ Equal(i, k) # "?"
          => Equal(i, k) = "true"

\* C25 as claimed: semantical equality is an equivalence relation on all
\* terms: every call returns (a term compared with itself gives true), and what
\* the calls return is reflexive, symmetric and transitive
C25_AsClaimed == ~tm.panic /\ EqualIsEquivalence

(* ------------------------------- C26 ---------------------------------- *)

\* the variable atoms of a term, in the order they occur in it
RECURSIVE VariableAtoms(_)
RECURSIVE VariableAtomsEach(_)
VariableAtoms(term) ==
    CASE term.variant = "Atom" ->
            IF is_variable_atom_prefix(term.prefix) THEN << term >> ELSE << >>
      [] term.variant \in {"Compound", "Set"} -> VariableAtomsEach(term.terms)
      [] term.variant = "Statement" ->
            VariableAtomsEach(<< term.subject, term.predicate >>)

VariableAtomsEach(terms) ==
    IF terms = << >> THEN << >>
    ELSE VariableAtoms(Head(terms)) \o VariableAtomsEach(Tail(terms))

\* the term with the names of its variables blanked (their kinds stay)
RECURSIVE Skeleton(_)
Skeleton(term) ==
    CASE term.variant = "Atom" ->
            IF is_variable_atom_prefix(term.prefix) THEN Atom(term.prefix, "") ELSE term
      [] term.variant \in {"Compound", "Set"} ->
            [term EXCEPT !.terms = [i \in 1..Len(term.terms) |-> Skeleton(term.terms[i])]]
      [] term.variant = "Statement" ->
            [term EXCEPT !.subject = Skeleton(term.subject),
                         !.predicate = Skeleton(term.predicate)]

\* term2 is term1 with its variables renamed one to one, kinds kept: the same
\* term but for the variables' names, and two places hold the same variable in
\* one term iff they do in the other
Renamed(term1, term2) ==
    LET v1 == VariableAtoms(term1)
        v2 == VariableAtoms(term2)
    IN  /\ Skeleton(term1) = Skeleton(term2)
        /\ \A i, j \in 1..Len(v1) : (v1[i] = v1[j]) <=> (v2[i] = v2[j])

\* the orders a sequence can be put in
Orders(q) ==
    { [i \in 1..Len(q) |-> q[f[i]]] :
        f \in { g \in [1..Len(q) -> 1..Len(q)] :
                  \A i, j \in 1..Len(q) : g[i] = g[j] => i = j } }

\* the terms a term becomes by reordering the children of its commutative
\* connectors, subject and predicate of a commutative copula included
RECURSIVE Reordered(_)
RECURSIVE ReorderedEach(_)
Reordered(term) ==
    CASE term.variant = "Atom" -> { term }
      [] term.variant \in {"Compound", "Set"} ->
            IF is_communicative_term(get_identifier(term))
            THEN UNION { { [term EXCEPT !.terms = o] : o \in Orders(q) } :
                           q \in ReorderedEach(term.terms) }
            ELSE { [term EXCEPT !.terms = q] : q \in ReorderedEach(term.terms) }
      [] term.variant = "Statement" ->
            { [term EXCEPT !.subject = q[1], !.predicate = q[2]] :
                q \in IF is_communicative_term(term.copula)
                      THEN UNION { Orders(q) : q \in ReorderedEach(<< term.subject, term.predicate >>) }
                      ELSE ReorderedEach(<< term.subject, term.predicate >>) }

ReorderedEach(terms) ==
    IF terms = << >> THEN { << >> }
    ELSE { << h >> \o t : h \in Reordered(Head(terms)), t \in ReorderedEach(Tail(terms)) }

\* one term is obtained from the other by renaming variables one to one, kinds
\* kept, and reordering the children of commutative connectors
Equivalent(term1, term2) == \E r \in Reordered(term2) : Renamed(term1, r)

\* C26 as claimed: semantical_equal_mut returns true exactly when one term is
\* obtained from the other by a one-to-one renaming of variables that keeps
\* kinds and by reordering the children of commutative connectors
C26_AsClaimed ==
    \A p \in SlotPairs(3) :
        Equal(p[1], p[2]) # "?" =>
            (Equal(p[1], p[2]) = "true" <=> Equivalent(tm.orig[p[1]], tm.orig[p[2]]))

(* ------------------------------- C27 ---------------------------------- *)

\* rename_variables_in_term has just returned on the term of slot 1
Renumbered == tm.last.op = "rename_variables_in_term"

\* the number of the variable at place i of the variable atoms v: the count of
\* different variables up to its first occurrence (a variable is identified by
\* its name, as in VariableNameMap)
NumberOf(v, i) ==
    LET first == CHOOSE k \in 1..i :
                    /\ v[k].name = v[i].name
                    /\ \A j \in 1..(k - 1) : v[j].name # v[i].name
    IN  Cardinality({ v[j].name : j \in 1..first })

FloatCompared == ex.op = "is_expected_float"

\* |a - b| <= e for two finite values a and b; nothing is <= NaN
WithinPrecision(a, b, e) ==
    CASE e.kind = "finite" -> (IF a.n >= b.n THEN a.n - b.n ELSE b.n - a.n) <= e.n
      [] e = INFINITY -> TRUE
      [] OTHER -> FALSE

\* C30: is_expected_float(a, b, e) returns true iff |a - b| <= e; with e = 0 it
\* returns true iff a = b, with e = +infinity always, with e < 0 (negative
\* infinity included) never, identical values included
C30_FloatWithinPrecision ==
    FloatCompared =>
        /\ ex.result = "true" <=> WithinPrecision(ex.expected, ex.out, ex.precision_epoch)
        /\ ex.precision_epoch = Float(0) => (ex.result = "true" <=> ex.expected = ex.out)
        /\ ex.precision_epoch = INFINITY => ex.result = "true"
        /\ FloatLe(ex.precision_epoch, Float(-1)) => ex.result = "false"

\* 1 against 3 under the precision 2: out is the greater, the difference is the
\* precision
C30_Witness ==
    /\ FloatCompared
    /\ ex.expected = Float(1) /\ ex.out = Float(3) /\ ex.precision_epoch = Float(2)
    /\ ex.result = "true"

(* ------------------------------- C29 ---------------------------------- *)

\* is_expected_narsese_lexical has returned or panicked
NarseseCompared == ex.op = "is_expected_narsese_lexical"

\* a Narsese value has a truth (sentences and tasks) or a budget (tasks), and
\* states it when it is not empty
HasTruth(narsese) == narsese.variant \in {"Sentence", "Task"}
HasBudget(narsese) == narsese.variant = "Task"
StatesTruth(narsese) == HasTruth(narsese) /\ narsese.truth # << >>
StatesBudget(narsese) == HasBudget(narsese) /\ narsese.budget # << >>

\* C29: with an expected value that states no truth, what the comparison gives
\* for an output that has a truth is the same whatever that truth is, and with
\* an expected value that states no budget it is the same whatever the budget
\* of an output that has one; an expected value that states a truth (a budget)
\* does not match an output without one or with an empty one; and a match has
\* the same punctuation and the same stamp on both sides (or none on both)
C29_EmptyTruthBudgetWildcard ==
    NarseseCompared =>
        /\ ~StatesTruth(ex.expected) /\ HasTruth(ex.out) =>
              \A truth \in Truths :
                  is_expected_narsese_lexical(ex.expected, [ex.out EXCEPT !.truth = truth],
                                              ex.precision_epoch) = ex.result
        /\ ~StatesBudget(ex.expected) /\ HasBudget(ex.out) =>
              \A budget \in Budgets :
                  is_expected_narsese_lexical(ex.expected, [ex.out EXCEPT !.budget = budget],
                                              ex.precision_epoch) = ex.result
        /\ StatesTruth(ex.expected) /\ ~StatesTruth(ex.out) => ex.result # "true"
        /\ StatesBudget(ex.expected) /\ ~StatesBudget(ex.out) => ex.result # "true"
        /\ ex.result = "true" =>
              /\ HasTruth(ex.expected) <=> HasTruth(ex.out)
              /\ ex.expected.punctuation = ex.out.punctuation
              /\ ex.expected.stamp = ex.out.stamp

\* `A.` matched `$0.5;0.5;0.5$ A. %0.5;0.75%` (in units of a quarter)
C29_Witness ==
    /\ NarseseCompared
    /\ ex.expected = NarseseSentence(Word("A"), ".", "", << >>)
    /\ ex.out = NarseseTask(<< Float(2), Float(2), Float(2) >>, Word("A"), ".", "",
                            << Float(2), Float(3) >>)
    /\ ex.precision_epoch = Float(0)
    /\ ex.result = "true"

(* ------------------------------- C28 ---------------------------------- *)

\* OutputExpectation::matches has returned or panicked
Matched == ex.op = "matches"

\* the constraints of an expectation, and the expectation without one of them
Constraints == { "output_type", "narsese", "operation" }
Dropped(e, constraint) == [e EXCEPT ![constraint] = None]

\* C28: where an expectation matches an output, the expectation without its
\* output type, the one without its Narsese and the one without its operation
\* match that output too
C28_MatchMonotone ==
    Matched /\ ex.result = "true" =>
        \A constraint \in Constraints :
            OutputExpectationMatches(Dropped(ex.expected, constraint), ex.out,
                                     ex.precision_epoch) = "true"

\* the expectation `EXE * left({A})` matched an EXE output of that operation
C28_Witness ==
    /\ Matched
    /\ ex.expected = Expectation(Some("EXE"), None,
                                 Some(Operation("left", << ExtSet(<< Word("A") >>) >>)))
    /\ ex.out = NavmOutput("EXE", None,
                           Some(Operation("left", << ExtSet(<< Word("A") >>) >>)))
    /\ ex.result = "true"

(* ------------------------------- C31 ---------------------------------- *)

\* the operator names the accepted REG commands before the i-th accepted
\* command gave a `*setopname` line for
RegisteredBefore(i) ==
    { accepted[j].cmd.arg :
        j \in { k \in 1..(i - 1) : accepted[k].cmd.tag = "REG" /\ accepted[k].s # "" } }

\* C31 as claimed: an accepted REG is translated to the empty text exactly when
\* its operator is pre-registered in ONA, was registered by an earlier REG, or
\* OPERATIONS_MAX operators were registered before it; only the other REGs
\* give a `*setopname` line
C31_AsClaimed ==
    \A i \in 1..Len(accepted) :
        accepted[i].cmd.tag = "REG" =>
            (accepted[i].s = "" <=>
                \/ accepted[i].cmd.arg \in OPERATOR_NAME_LIST
                \/ accepted[i].cmd.arg \in RegisteredBefore(i)
                \/ Cardinality(RegisteredBefore(i)) >= OPERATIONS_MAX)


(* ------------------------------- C32 ---------------------------------- *)

\* what the claim has the consumer receive for a line: its translation, or an
\* output of the ERROR variant when the output translator cannot parse it
SurfacedOutput(line) ==
    IF output_translate(line).ok
    THEN output_translate(line).out
    ELSE Output("ERROR", line)

\* the lines the reader thread can queue: those that are UTF-8, in print order
RECURSIVE QueueableLines(_)
QueueableLines(lines) ==
    IF lines = << >> THEN << >>
    ELSE IF IsUtf8(Head(lines))
         THEN << Head(lines) >> \o QueueableLines(Tail(lines))
         ELSE QueueableLines(Tail(lines))

\* C32 as claimed: a line the output translator fails to parse is given to the
\* consumer as an ERROR output at its position: the outputs offered are, in
\* order and without a gap, the translation or else the ERROR output of the
\* UTF-8 lines the child printed
C32_AsClaimed ==
    /\ Len(offered) <= Len(QueueableLines(produced))
    /\ \A i \in 1..Len(offered) :
          offered[i] = SurfacedOutput(QueueableLines(produced)[i])


(* ------------------------------- C33 ---------------------------------- *)

\* C33 as claimed: launch() of a CommandVm that was not given an input or an
\* output translator produces no runtime
C33_AsClaimed ==
    (vm.launched /\ (vm.input_translator = None \/ vm.output_translator = None))
        => vm.runtime = NoRuntime


(* ------------------------------- C34 ---------------------------------- *)

\* term_comparator was called on the slots i and j
Compared(i, j) == tm.last.op = "term_comparator" /\ tm.equal[<< i, j >>] # "?"

\* Ordering::reverse
Reverse(o) == CASE o = "Less" -> "Greater" [] o = "Greater" -> "Less" [] OTHER -> o

\* the slots that hold a variable atom
IsVariableAtom(i) ==
    tm.terms[i].variant = "Atom" /\ is_variable_atom_prefix(tm.terms[i].prefix)

\* the results for the slots i, j and k are those of a transitive order
TransitiveOn(i, j, k) ==
    /\ (tm.equal[<< i, j >>] = "Equal" /\ tm.equal[<< j, k >>] = "Equal")
           => tm.equal[<< i, k >>] = "Equal"
    /\ (tm.equal[<< i, j >>] = "Equal" /\ tm.equal[<< j, k >>] = "Less")
           => tm.equal[<< i, k >>] = "Less"
    /\ (tm.equal[<< i, j >>] = "Less" /\ tm.equal[<< j, k >>] = "Equal")
           => tm.equal[<< i, k >>] = "Less"
    /\ (tm.equal[<< i, j >>] = "Less" /\ tm.equal[<< j, k >>] = "Less")
           => tm.equal[<< i, k >>] = "Less"

\* C34 as claimed: the results of term_comparator are those of a total order
\* that holds all variable atoms equal: comparing b with a gives the reverse of
\* comparing a with b, the results are transitive (Equal ones included), and
\* two variable atoms compare Equal
C34_AsClaimed ==
    /\ \A p \in SlotPairs(3) :
          (Compared(p[1], p[2]) /\ Compared(p[2], p[1]))
              => tm.equal[<< p[2], p[1] >>] = Reverse(tm.equal[p])
    /\ \A p \in SlotPairs(3) :
          (Compared(p[1], p[2]) /\ IsVariableAtom(p[1]) /\ IsVariableAtom(p[2]))
              => tm.equal[p] = "Equal"
    /\ \A i, j, k \in 1..3 :
          (i # j /\ j # k /\ i # k /\ Compared(i, j) /\ Compared(j, k) /\ Compared(i, k))
              => TransitiveOn(i, j, k)


(* ------------------------------- C35 ---------------------------------- *)

\* the writer thread is inside write_all on the full stdin pipe of a running
\* child
WriterBlocked == wpc = "write" /\ alive /\ stdin_pipe >= PipeCap

\* C35 as claimed: a kill() that has set the termination signal while the
\* writer thread is blocked in a write to the full stdin pipe returns, whether
\* or not the child ever reads again
C35_AsClaimed ==
    (cpc = "kill_put" /\ WriterBlocked) ~> (cpc = "idle" /\ killed)


(* ------------------------------- C36 ---------------------------------- *)

NoMoreOutputs == ~alive /\ stdout_pipe = << >> /\ child_out = << >>

\* C37 as claimed: an Await that is waiting when the runtime can give no
\* output any more returns
C37_AsClaimed ==
    (cpc = "await" /\ NoMoreOutputs) ~> (cpc = "idle")

(* ------------------------------- C38 ---------------------------------- *)

\* C38 as claimed: rename_variables_in_term leaves everything but the names of
\* the variable atoms as it was: the term it returns and the term it was given
\* are the same once the names of their variables are blanked
C38_AsClaimed ==
    Renumbered => Skeleton(tm.terms[1]) = Skeleton(tm.last.before)


(* ------------------------------- C39 ---------------------------------- *)

\* the lock thread t is about to take: it waits for it while another thread
\* holds it ("": t is not at a lock)
WaitsFor(t) ==
    CASE cli.pc[t] \in {"prelude", "check", "lock_runtime"} -> "runtime"
      [] cli.pc[t] = "lock_cache" -> "output_cache"
      [] cli.pc[t] = "spawn" /\ cli.config.websocket -> "output_cache"
      [] OTHER -> ""

\* who holds a lock
Holder(lock) == IF lock = "runtime" THEN cli.runtime ELSE cli.output_cache

\* thread t cannot go on: the lock it is about to take is held
Blocked(t) == WaitsFor(t) # "" /\ Holder(WaitsFor(t)) # ""

\* C39: the threads of the CLI never deadlock on the runtime lock and the
\* output-cache lock: a thread that waits for the runtime lock holds no lock,
\* a thread that takes the cache lock after the runtime lock holds the runtime
\* lock while it waits for the cache, and a thread that holds a lock another
\* thread waits for is never itself blocked on a lock (so no thread waits for
\* a lock it holds, and no two threads wait for each other)
C39_NoLockDeadlock ==
    /\ \A t \in Threads :
          WaitsFor(t) = "runtime" => (cli.runtime # t /\ cli.output_cache # t)
    /\ \A t \in Threads : cli.pc[t] = "lock_cache" => cli.runtime = t
    /\ \A t \in Threads : cli.output_cache = t /\ t # "main" => cli.runtime = t
    /\ \A t \in Threads : Blocked(t) => ~Blocked(Holder(WaitsFor(t)))

\* the Websocket handler holds both locks while the user-input thread and the
\* read-output thread wait for the runtime lock
C39_Witness ==
    /\ cli.runtime = "websocket"
    /\ cli.output_cache = "websocket"
    /\ Blocked("user_input")
    /\ Blocked("read_output")

====
